---- MODULE Spec2Model ----
(***************************************************************************)
(* Model of GeminiGarmentSwapClient.swap_garment (src/gemini_client.py):   *)
(* input validation, the bounded retry loop around _perform_swap, the one  *)
(* external API call per attempt, and the interpretation of the API's      *)
(* response shapes.                                                        *)
(***************************************************************************)
EXTENDS Integers, Sequences, FiniteSets, TLC

\* ---------------------------------------------------------------- bounds
\* largest configured Config.max_retries explored (the default is 3)
MaxRetriesBound == 3
\* how far below zero the configured Config.max_retries is explored
NegRetries == 1
\* largest Config.retry_delay explored, in whole seconds
MaxDelay == 2

\* ------------------------------------------------------- program constants
DefaultMaxRetries == 3

\* ------------------------------------------------------------ finish reason
\* str(candidate.finish_reason), split into its words at '.' and '_'.
FinishStrings ==
  { <<"None">>,
    <<"FinishReason", "STOP">>,
    <<"FinishReason", "OTHER">>,
    <<"FinishReason", "SAFETY">>,
    <<"FinishReason", "IMAGE", "SAFETY">>,
    <<"FinishReason", "IMAGE", "OTHER">>,
    <<"FinishReason", "PROHIBITED", "CONTENT">>,
    <<"FinishReason", "IMAGE", "PROHIBITED", "CONTENT">> }

\* Python's `needle in haystack` on the word sequences.
Contains(needle, hay) ==
  \E i \in 1..(Len(hay) - Len(needle) + 1) :
     SubSeq(hay, i, i + Len(needle) - 1) = needle

\* ---- characters: a string is the sequence of its characters ----
\* The code points str.strip() and int() treat as whitespace
\* (str.isspace()); one without an escape in this notation is written by
\* its code point.
Whitespace ==
  { " ", "\t", "\n", "\r", "\f", "U+000B", "U+001C", "U+001D", "U+001E",
    "U+001F", "U+0085", "U+00A0", "U+1680", "U+2000", "U+2001", "U+2002",
    "U+2003", "U+2004", "U+2005", "U+2006", "U+2007", "U+2008", "U+2009",
    "U+200A", "U+2028", "U+2029", "U+202F", "U+205F", "U+3000" }

IsSpace(ch) == ch \in Whitespace

\* str.strip() on a sequence of characters
RECURSIVE LStripChars(_)
LStripChars(str) ==
  IF str # <<>> /\ IsSpace(str[1]) THEN LStripChars(Tail(str)) ELSE str

RECURSIVE RStripChars(_)
RStripChars(str) ==
  IF str # <<>> /\ IsSpace(str[Len(str)])
  THEN RStripChars(SubSeq(str, 1, Len(str) - 1)) ELSE str

StripChars(str) == RStripChars(LStripChars(str))

\* `word in str.lower()` for a word of lower-case ASCII letters.
\* str.lower() puts the lower case of each character in its place.  A
\* lower-case ASCII letter comes out of the letter itself, of its capital, of
\* U+212A KELVIN SIGN (k) and of U+0130 (i, followed by U+0307) and of no
\* other character, so the word is in the lowered text exactly where each of
\* its letters comes out of one character of str, U+0130 giving only its
\* last letter.
InLower(word, str) ==
  LET UpperCase ==
        << "A", "B", "C", "D", "E", "F", "G", "H", "I", "J", "K", "L", "M",
           "N", "O", "P", "Q", "R", "S", "T", "U", "V", "W", "X", "Y", "Z" >>
      LowerCase ==
        << "a", "b", "c", "d", "e", "f", "g", "h", "i", "j", "k", "l", "m",
           "n", "o", "p", "q", "r", "s", "t", "u", "v", "w", "x", "y", "z" >>
      \* the first character of the lower case of ch, where it is an ASCII
      \* letter; ch itself stands for any other lower case
      Letter(ch) ==
        IF \E i \in 1..Len(UpperCase) : UpperCase[i] = ch
        THEN LowerCase[CHOOSE i \in 1..Len(UpperCase) : UpperCase[i] = ch]
        ELSE IF ch = "U+0130" THEN "i"
        ELSE IF ch = "U+212A" THEN "k"
        ELSE ch
      n == Len(word)
  IN \E p \in 1..(Len(str) - n + 1) :
        \A j \in 1..n :
           /\ Letter(str[p + j - 1]) = word[j]
           /\ j < n => str[p + j - 1] # "U+0130"

\* `str.lower() == word` for a word of lower-case ASCII letters: the word
\* is in the lowered text and the lowered text is no longer than the word
\* (U+0130 is the one character whose lower case is two characters)
LowerEquals(str, word) ==
  /\ Len(str) = Len(word)
  /\ \A i \in 1..Len(str) : str[i] # "U+0130"
  /\ InLower(word, str)

PROHIBITED_CONTENT == <<"PROHIBITED", "CONTENT">>
IMAGE_OTHER == <<"IMAGE", "OTHER">>
SAFETY == <<"SAFETY">>

\* --------------------------------------------------------- exception texts
MsgProhibited == "PROHIBITED_CONTENT: The API blocked this generation due to content policy."
MsgSafety == "SAFETY: Generation was blocked by safety filters."
MsgNotIterable == "'NoneType' object is not iterable"
MsgCannotIdentify == "cannot identify image file"
MsgModelNotFound == "Model image not found"
MsgFlatlayNotFound == "Flat-lay image not found"
MsgAdditionalNotFound == "Additional image not found"
MsgTransport == "connection failed"
MsgNoSuchFile == "[Errno 2] No such file or directory"
MsgReferenceNotFound == "Reference image not found"
MsgZeroSize == "height and width must be > 0"

\* ------------------------------------------------------ API behaviours
\* One behaviour of client.models.generate_content: it raises APIError
\* (with a status code), raises some other exception, or returns a
\* response object of one of the shapes below.
\*   candidates : "absent" (None) | "empty" ([]) | "one"
\*   candidate  : "null" | "nocontentattr" | "obj"
\*   content    : "null" | "obj"
\*   finishattr : whether the candidate has a finish_reason attribute
\*   finish     : str(finish_reason) as words
\*   partsattr  : "noattr" | "null" | "list"
\*   parts      : sequence of "text" | "image" | "badimage"
Beh(kind, code, cands, cand, content, fattr, finish, pattr, parts) ==
  [kind |-> kind, code |-> code, candidates |-> cands, candidate |-> cand,
   content |-> content, finishattr |-> fattr, finish |-> finish,
   partsattr |-> pattr, parts |-> parts]

ApiErrorBeh(code) == Beh("APIError", code, "absent", "null", "null", FALSE, <<"None">>, "noattr", <<>>)
OtherExcBeh == Beh("Exception", 0, "absent", "null", "null", FALSE, <<"None">>, "noattr", <<>>)
NoCandidates(c) == Beh("Response", 0, c, "null", "null", FALSE, <<"None">>, "noattr", <<>>)
BadCandidate(c) == Beh("Response", 0, "one", c, "null", FALSE, <<"None">>, "noattr", <<>>)
NullContent(fattr, f) == Beh("Response", 0, "one", "obj", "null", fattr, f, "noattr", <<>>)
WithParts(pattr, p) == Beh("Response", 0, "one", "obj", "obj", TRUE, <<"FinishReason", "STOP">>, pattr, p)

ApiErrorCodes == {500, 503}

PartLists ==
  { <<>>, <<"text">>, <<"image">>, <<"badimage">>,
    <<"text", "image">>, <<"image", "image">>, <<"text", "badimage">> }

Behaviours ==
  { ApiErrorBeh(c) : c \in ApiErrorCodes }
  \cup { OtherExcBeh }
  \cup { NoCandidates(c) : c \in {"absent", "empty"} }
  \cup { BadCandidate(c) : c \in {"null", "nocontentattr"} }
  \cup { NullContent(TRUE, f) : f \in FinishStrings }
  \cup { NullContent(FALSE, <<"None">>) }
  \cup { WithParts("noattr", <<>>), WithParts("null", <<>>) }
  \cup { WithParts("list", p) : p \in PartLists }


\* ------------------------------------------------------------- results
\* What one run of _perform_swap produced.
\*   ret    : "path" (output_path returned) | "None" | "raise"
\*   exc    : class of the raised exception ("" when nothing is raised)
\*   msg    : text of the raised exception
\*   code   : status code of an APIError (0 otherwise)
\*   tag    : the branch taken, as named by its logger line
\*   called : whether generate_content was invoked
\*   wrote  : whether generated_image.save(output_path) ran
Res(ret, exc, msg, code, tag, called, wrote) ==
  [ret |-> ret, exc |-> exc, msg |-> msg, code |-> code, tag |-> tag,
   called |-> called, wrote |-> wrote]

ReturnNone(tag) == Res("None", "", "", 0, tag, TRUE, FALSE)
Raise(exc, msg, tag) == Res("raise", exc, msg, 0, tag, TRUE, FALSE)

\* index of the first part whose inline_data is set (0 when there is none)
FirstInline(parts) ==
  IF \E i \in 1..Len(parts) : parts[i] # "text"
  THEN CHOOSE i \in 1..Len(parts) :
         /\ parts[i] # "text"
         /\ \A j \in 1..(i - 1) : parts[j] = "text"
  ELSE 0

\* variant: the SAFETY branch only logs and falls through to `return None`
NullContentBranch_SafetyFallsThrough(resp) ==
  IF resp.finishattr /\ Contains(PROHIBITED_CONTENT, resp.finish)
  THEN Raise("Exception", MsgProhibited, "prohibited_content")
  ELSE IF resp.finishattr /\ Contains(IMAGE_OTHER, resp.finish)
  THEN ReturnNone("image_other")
  ELSE IF resp.finishattr /\ Contains(SAFETY, resp.finish)
  THEN ReturnNone("safety")
  ELSE ReturnNone("null_content")

\* candidate.content is None: inspect the finish reason
NullContentBranch(resp) ==
  IF resp.finishattr /\ Contains(PROHIBITED_CONTENT, resp.finish)
  THEN Raise("Exception", MsgProhibited, "prohibited_content")
  ELSE IF resp.finishattr /\ Contains(IMAGE_OTHER, resp.finish)
  THEN ReturnNone("image_other")
  ELSE IF resp.finishattr /\ Contains(SAFETY, resp.finish)
  THEN Raise("Exception", MsgSafety, "safety")
  ELSE ReturnNone("null_content")

\* variant: the image is saved but output_path is not returned from the loop
PartsBranch_SaveNoReturn(parts) ==
  LET i == FirstInline(parts) IN
  IF i = 0 THEN ReturnNone("no_inline")
  ELSE IF parts[i] = "badimage"
  THEN Raise("UnidentifiedImageError", MsgCannotIdentify, "bad_output")
  ELSE Res("None", "", "", 0, "saved", TRUE, TRUE)

\* the loop over content.parts: the first part with inline data is decoded
\* and saved; a part list without inline data falls through to None
PartsBranch(parts) ==
  LET i == FirstInline(parts) IN
  IF i = 0 THEN ReturnNone("no_inline")
  ELSE IF parts[i] = "badimage"
  THEN Raise("UnidentifiedImageError", MsgCannotIdentify, "bad_output")
  ELSE Res("path", "", "", 0, "saved", TRUE, TRUE)

\* "Extract and save image": the interpretation of a returned response
InterpretResponse(resp) ==
  IF resp.candidates \in {"absent", "empty"} THEN ReturnNone("no_candidates")
  ELSE IF resp.candidate \in {"null", "nocontentattr"} THEN ReturnNone("no_content")
  ELSE IF resp.content = "null" THEN NullContentBranch(resp)
  ELSE IF resp.partsattr = "noattr" THEN ReturnNone("no_parts_attr")
  ELSE IF resp.partsattr = "null"
  THEN Raise("TypeError", MsgNotIterable, "parts_null")
  ELSE PartsBranch(resp.parts)

\* Image.open of the three inputs, in order: the class of the exception the
\* first unreadable file raises ("" when all of them load)
LoadError(rq) ==
  IF rq.model = "missing" THEN "FileNotFoundError"
  ELSE IF rq.model = "corrupt" THEN "UnidentifiedImageError"
  ELSE IF rq.flatlay = "missing" THEN "FileNotFoundError"
  ELSE IF rq.flatlay = "corrupt" THEN "UnidentifiedImageError"
  ELSE IF rq.additional = "missing" THEN "FileNotFoundError"
  ELSE IF rq.additional = "corrupt" THEN "UnidentifiedImageError"
  ELSE ""

_perform_swap(rq, beh) ==
  IF LoadError(rq) # ""
  THEN Res("raise", LoadError(rq),
           IF LoadError(rq) = "FileNotFoundError" THEN MsgNoSuchFile ELSE MsgCannotIdentify,
           0, "load_error", FALSE, FALSE)
  ELSE IF beh.kind = "APIError"
  THEN Res("raise", "APIError", "", beh.code, "api_error", TRUE, FALSE)
  ELSE IF beh.kind = "Exception"
  THEN Raise("ConnectionError", MsgTransport, "transport_exception")
  ELSE InterpretResponse(beh)

\* ---------------------------------------------------------------- state
VARIABLES
  config,          \* [max_retries, retry_delay]
  req,             \* [model, flatlay, additional]: state of the input files
  pc,              \* "start" | "loop" | "done"
  attempt,         \* the loop variable of `for attempt in range(...)`
  last_exception,  \* status code of the last APIError caught (0: None)
  log,             \* one entry per attempt started: [tag, exc, code, called]
  last_response,   \* the behaviour of the latest API call
  api_calls,       \* number of generate_content invocations
  sleeps,          \* durations passed to time.sleep, in order
  writes,          \* number of saves to output_path
  outcome,         \* [kind, exc, msg, code] once pc = "done"
  reply,           \* what the route answers for the outcome: [http, templated, text, commit]
  db,              \* the Generation records committed: [type, success, error_message]
  session_id       \* str(uuid.uuid4())[:8] of the request, as words

\* the image sizes of one /generate request, followed separately from the
\* retry loop (specification SizeSpec)
VARIABLES
  spc,             \* "off" | "request" | "parsed" | "prepared" | "saved" | "failed"
  imgs,            \* the uploaded images: [model, flatlay, additional]
  out_pref,        \* the form value output_size, as its characters
  max_output_size, \* what /generate passes to swap_garment: [none, n], n an int
  sent,            \* the images of the API request (contents[1:])
  generated,       \* the image decoded from the response's inline data
  saved            \* the image written to output_path

sizeVars == <<spc, imgs, out_pref, max_output_size, sent, generated, saved>>

\* the prompt: calls of PromptGenerator (specification PromptSpec) and the
\* assembly of the full prompt in /generate (specification RefineSpec)
VARIABLES
  calls,           \* generate_garment_swap_prompt calls: [desc, face, lighting, background, prompt]
  rpc,             \* "off" | "request" | "built"
  refinements,     \* the form value refinements, as lines of runs
  additional_path, \* whether an additional image was uploaded
  full_prompt      \* the prompt handed to swap_garment, as lines of runs

promptVars == <<calls, rpc, refinements, additional_path, full_prompt>>

\* PromptGenerator.generate_luxury_cashmere_prompt (specification PromptSpec)
VARIABLES
  luxury           \* the calls: [color, style, knit_pattern, description, prompt]

luxVars == <<luxury>>

\* GeminiGarmentSwapClient.generate_ai_model (specification AiSpec)
VARIABLES
  ai_pc,           \* "off" | "start" | "prepare" | "call" | "interpret" | "save" | "done"
  ai_ref,          \* the reference image file (NoImg: no such file)
  ai_sent,         \* the image of the API request
  ai_response,     \* the behaviour of the API call
  ai_calls,        \* number of generate_content invocations
  ai_sleeps,       \* durations passed to time.sleep
  ai_writes,       \* number of saves to output_path
  ai_steps,        \* the stages entered, in order
  ai_outcome       \* [kind, exc, msg, code] once ai_pc = "done"

aiVars == <<ai_pc, ai_ref, ai_sent, ai_response, ai_calls, ai_sleeps, ai_writes,
            ai_steps, ai_outcome>>

\* GarmentSwapProcessor.process_batch (specification BatchSpec)
VARIABLES
  batch_pc,        \* "off" | "loop" | "returned" | "aborted"
  model_images,    \* the argument model_images: file names
  batch_i,         \* the loop index i of enumerate(model_images, 1)
  batch_log,       \* the swaps attempted: [model, outcome, path]
  results          \* the list results

batchVars == <<batch_pc, model_images, batch_i, batch_log, results>>

\* iterate.py main (specification IterSpec)
VARIABLES
  iter_pc,         \* "off" | "swap" | "ask" | "exit"
  iteration,       \* the counter iteration
  notes,           \* the refinements, as the list of the instructions joined by "\n"
  written          \* the output paths of the images generated, in order

iterVars == <<iter_pc, iteration, notes, written>>

swapVars == <<config, req, pc, attempt, last_exception, log, last_response,
              api_calls, sleeps, writes, outcome>>
appVars == <<reply, db, session_id>>

coreVars == <<swapVars, appVars, sizeVars, promptVars>>
\* the variables of the flows beside /generate
laterVars == <<luxVars, aiVars, batchVars, iterVars>>
\* all the variables but those of one flow
notLuxVars == <<coreVars, aiVars, batchVars, iterVars>>
notAiVars == <<coreVars, luxVars, batchVars, iterVars>>
notBatchVars == <<coreVars, luxVars, aiVars, iterVars>>
notIterVars == <<coreVars, luxVars, aiVars, batchVars>>
vars == <<coreVars, laterVars>>

Outcome(kind, exc, msg, code) == [kind |-> kind, exc |-> exc, msg |-> msg, code |-> code]
Pending == Outcome("pending", "", "", 0)
NoBehaviour == Beh("none", 0, "absent", "null", "null", FALSE, <<"None">>, "noattr", <<>>)

FileStates == {"missing", "ok", "corrupt"}

\* commit: "ok" | "failed" (db.session.commit raised) | "none" (no record made)
NoReply == [http |-> 0, templated |-> FALSE, text |-> <<>>, commit |-> "none"]

\* the first eight characters of a uuid4, cut into words around "500"
SessionIds == { <<"1a2b3c4d">>, <<"a", "500", "bcde">> }

\* the address in the repr of an object, cut into words around "500"
ObjectAddresses == { <<"0x7f3a1c2b4d60">>, <<"0x7f3a", "500", "b1c40">> }

\* the request layer outside a request
AppIdle ==
  /\ reply = NoReply
  /\ db = <<>>
  /\ session_id = <<"1a2b3c4d">>

\* a request of the web application before the client call has returned
AppInit ==
  /\ reply = NoReply
  /\ db = <<>>
  /\ session_id \in SessionIds

Img(w, h, mode) == [w |-> w, h |-> h, mode |-> mode]
\* additional_image = None, and "no image yet"
NoImg == Img(0, 0, "none")
\* A Python int has no largest value: it is held as its sign and its decimal
\* digits, the most significant first and none for zero.  PyInt(k) is the
\* int of the value k.
PyInt(k) ==
  LET a == IF k < 0 THEN 0 - k ELSE k
      Pow10 == <<1, 10, 100, 1000, 10000, 100000, 1000000, 10000000,
                 100000000, 1000000000>>
      len == Cardinality({ d \in 1..10 : a >= Pow10[d] })
  IN [neg |-> k < 0, digits |-> [i \in 1..len |-> (a \div Pow10[len - i + 1]) % 10]]

\* k > n for a side k of an image and an int n
Exceeds(k, n) ==
  LET a == n.digits
      b == PyInt(k).digits
  IN \/ n.neg
     \/ Len(a) < Len(b)
     \/ /\ Len(a) = Len(b)
        /\ \E i \in 1..Len(a) : a[i] < b[i] /\ \A j \in 1..(i - 1) : a[j] = b[j]

\* max_output_size: None, or an int
NoneSize == [none |-> TRUE, n |-> PyInt(0)]
IntSize(n) == [none |-> FALSE, n |-> n]

\* no request is being followed for its sizes
SizeIdle ==
  /\ spc = "off"
  /\ imgs = [model |-> NoImg, flatlay |-> NoImg, additional |-> NoImg]
  /\ out_pref = <<>>
  /\ max_output_size = NoneSize
  /\ sent = <<>>
  /\ generated = NoImg
  /\ saved = NoImg

\* the flows beside /generate are not running
LuxIdle ==
  /\ luxury = <<>>

AiIdle ==
  /\ ai_pc = "off"
  /\ ai_ref = NoImg
  /\ ai_sent = NoImg
  /\ ai_response = NoBehaviour
  /\ ai_calls = 0
  /\ ai_sleeps = <<>>
  /\ ai_writes = 0
  /\ ai_steps = <<>>
  /\ ai_outcome = Pending

BatchIdle ==
  /\ batch_pc = "off"
  /\ model_images = <<>>
  /\ batch_i = 0
  /\ batch_log = <<>>
  /\ results = <<>>

IterIdle ==
  /\ iter_pc = "off"
  /\ iteration = 0
  /\ notes = <<>>
  /\ written = <<>>

LaterIdle ==
  /\ LuxIdle
  /\ AiIdle
  /\ BatchIdle
  /\ IterIdle

\* no prompt is being built
PromptIdle ==
  /\ calls = <<>>
  /\ rpc = "off"
  /\ refinements = <<>>
  /\ additional_path = FALSE
  /\ full_prompt = <<>>

Init ==
  /\ AppInit
  /\ SizeIdle
  /\ PromptIdle
  /\ LaterIdle
  /\ config \in [max_retries : (0 - NegRetries)..MaxRetriesBound, retry_delay : 0..MaxDelay]
  /\ req \in [model : FileStates, flatlay : FileStates,
              additional : FileStates \cup {"none"}]
  /\ pc = "start"
  /\ attempt = 0
  /\ last_exception = 0
  /\ log = <<>>
  /\ last_response = NoBehaviour
  /\ api_calls = 0
  /\ sleeps = <<>>
  /\ writes = 0
  /\ outcome = Pending

\* variant: the additional image is not checked for existence
MissingInput_NoAdditional(rq) ==
  IF rq.model = "missing" THEN MsgModelNotFound
  ELSE IF rq.flatlay = "missing" THEN MsgFlatlayNotFound
  ELSE ""

\* the three existence checks that precede the retry loop
MissingInput(rq) ==
  IF rq.model = "missing" THEN MsgModelNotFound
  ELSE IF rq.flatlay = "missing" THEN MsgFlatlayNotFound
  ELSE IF rq.additional = "missing" THEN MsgAdditionalNotFound
  ELSE ""

Validate ==
  /\ pc = "start"
  /\ IF MissingInput(req) # ""
     THEN /\ pc' = "done"
          /\ outcome' = Outcome("raise", "FileNotFoundError", MissingInput(req), 0)
          /\ UNCHANGED attempt
     ELSE /\ pc' = "loop"
          /\ attempt' = 1
          /\ UNCHANGED outcome
  /\ UNCHANGED <<config, req, last_exception, log, last_response, api_calls,
                 sleeps, writes>>
  /\ UNCHANGED <<appVars, sizeVars, promptVars, laterVars>>

\* variant: the first attempt is made whatever max_retries is
InRange_AtLeastOnce(k, cfg) == k >= 1 /\ (k <= cfg.max_retries \/ k = 1)

\* variant: range(1, max_retries + 2)
InRange_OneMore(k, cfg) == k >= 1 /\ k <= cfg.max_retries + 1

\* `attempt in range(1, max_retries + 1)`
InRange(k, cfg) == k >= 1 /\ k <= cfg.max_retries

\* the loop body with its decisions as parameters, used to state variants of
\* it: whether a returned path ends the call, whether the raised exception
\* is retried on attempt k, and how long the retry waits
LoopBody(r, k, cfg, returnsOnPath, retried, delay) ==
  IF r.ret = "path" /\ returnsOnPath
  THEN [pc |-> "done", outcome |-> Outcome("Success", "", "", 0), sleep |-> <<>>]
  ELSE IF r.ret # "raise"
  THEN [pc |-> "loop", outcome |-> Pending, sleep |-> <<>>]
  ELSE IF retried
  THEN [pc |-> "loop", outcome |-> Pending, sleep |-> <<delay>>]
  ELSE [pc |-> "done", outcome |-> Outcome("raise", r.exc, r.msg, r.code), sleep |-> <<>>]

\* variant: `if attempt <= max_retries` guards the sleep-and-continue
AfterAttempt_RetryOnLast(r, k, cfg) ==
  LoopBody(r, k, cfg, TRUE, r.exc = "APIError" /\ k <= cfg.max_retries,
           cfg.retry_delay * k)

\* variant: the successful result is not returned from inside the loop
AfterAttempt_NoReturn(r, k, cfg) ==
  LoopBody(r, k, cfg, FALSE, r.exc = "APIError" /\ k < cfg.max_retries,
           cfg.retry_delay * k)

\* variant: every exception is retried, not only APIError
AfterAttempt_RetryAll(r, k, cfg) ==
  LoopBody(r, k, cfg, TRUE, k < cfg.max_retries, cfg.retry_delay * k)

\* variant: the delay is not multiplied by the attempt index
AfterAttempt_ConstantDelay(r, k, cfg) ==
  LoopBody(r, k, cfg, TRUE, r.exc = "APIError" /\ k < cfg.max_retries,
           cfg.retry_delay)

\* what the loop body does with the result r of _perform_swap on attempt k
AfterAttempt(r, k, cfg) ==
  IF r.ret = "path"
  THEN [pc |-> "done", outcome |-> Outcome("Success", "", "", 0), sleep |-> <<>>]
  ELSE IF r.ret = "None"
  THEN [pc |-> "loop", outcome |-> Pending, sleep |-> <<>>]
  ELSE IF r.exc = "APIError"
  THEN IF k < cfg.max_retries
       THEN [pc |-> "loop", outcome |-> Pending, sleep |-> <<cfg.retry_delay * k>>]
       ELSE [pc |-> "done", outcome |-> Outcome("raise", "APIError", "", r.code), sleep |-> <<>>]
  ELSE [pc |-> "done", outcome |-> Outcome("raise", r.exc, r.msg, 0), sleep |-> <<>>]

\* one iteration of the retry loop, the API behaving as beh
Attempt(beh) ==
  /\ pc = "loop"
  /\ InRange(attempt, config)
  /\ LET r == _perform_swap(req, beh)
         a == AfterAttempt(r, attempt, config)
     IN /\ log' = Append(log, [tag |-> r.tag, exc |-> r.exc, code |-> r.code, called |-> r.called])
        /\ api_calls' = IF r.called THEN api_calls + 1 ELSE api_calls
        /\ last_response' = IF r.called THEN beh ELSE last_response
        /\ writes' = IF r.wrote THEN writes + 1 ELSE writes
        /\ last_exception' = IF r.exc = "APIError" THEN r.code ELSE last_exception
        /\ sleeps' = sleeps \o a.sleep
        /\ pc' = a.pc
        /\ outcome' = a.outcome
        /\ attempt' = IF a.pc = "loop" THEN attempt + 1 ELSE attempt
  /\ UNCHANGED <<config, req>>
  /\ UNCHANGED <<appVars, sizeVars, promptVars, laterVars>>

\* the range is exhausted: `return None`
LoopExit ==
  /\ pc = "loop"
  /\ ~InRange(attempt, config)
  /\ pc' = "done"
  /\ outcome' = Outcome("None", "", "", 0)
  /\ UNCHANGED <<config, req, attempt, last_exception, log, last_response,
                 api_calls, sleeps, writes>>
  /\ UNCHANGED <<appVars, sizeVars, promptVars, laterVars>>

\* ------------------------------------------------ the /generate handler
\* str(e) of the exception swap_garment raised, as words. An APIError reads
\* "<code> <status>. <details>"; the other texts are the messages above.
ErrorWords(o) ==
  IF o.exc = "APIError"
  THEN (IF o.code = 500 THEN <<"500", "INTERNAL">> ELSE <<"503", "UNAVAILABLE">>)
  ELSE IF o.msg = MsgProhibited
  THEN <<"PROHIBITED", "CONTENT", "The", "API", "blocked", "this", "generation">>
  ELSE IF o.msg = MsgSafety
  THEN <<"SAFETY", "Generation", "was", "blocked", "by", "safety", "filters">>
  ELSE IF o.msg = MsgNotIterable
  THEN <<"NoneType", "object", "is", "not", "iterable">>
  ELSE IF o.msg = MsgCannotIdentify
  THEN <<"cannot", "identify", "image", "file">>
  ELSE IF o.msg = MsgTransport
  THEN <<"connection", "failed">>
  ELSE IF o.msg = MsgModelNotFound
  THEN <<"Model", "image", "not", "found">>
  ELSE IF o.msg = MsgFlatlayNotFound
  THEN <<"Flat-lay", "image", "not", "found">>
  ELSE IF o.msg = MsgNoSuchFile
  THEN <<"Errno", "2", "No", "such", "file", "or", "directory">>
  ELSE IF o.msg = MsgReferenceNotFound
  THEN <<"Reference", "image", "not", "found">>
  ELSE IF o.msg = MsgZeroSize
  THEN <<"height", "and", "width", "must", "be", ">", "0">>
  ELSE <<"Additional", "image", "not", "found">>

\* the path of an upload: uploads/<session id>_<role>.<ext>
UploadPath(sid, role) == <<"uploads">> \o sid \o <<role, "png">>

\* the input Image.open fails on, in the order of loading
FirstUnreadable(rq) ==
  IF rq.model \in {"missing", "corrupt"} THEN "model"
  ELSE IF rq.flatlay \in {"missing", "corrupt"} THEN "flatlay"
  ELSE "additional"

\* the repr of the BytesIO the response's image bytes are decoded from
BytesRepr(addr) == <<"io", "BytesIO", "object", "at">> \o addr

\* what the text of the exception names after its message: the path of a
\* file, or the object that could not be decoded
ErrorOrigin(o, rq, sid, addr) ==
  IF o.msg = MsgModelNotFound THEN UploadPath(sid, "model")
  ELSE IF o.msg = MsgFlatlayNotFound THEN UploadPath(sid, "flatlay")
  ELSE IF o.msg = MsgAdditionalNotFound THEN UploadPath(sid, "additional")
  ELSE IF o.msg \in {MsgCannotIdentify, MsgNoSuchFile}
  THEN (IF LoadError(rq) # "" THEN UploadPath(sid, FirstUnreadable(rq)) ELSE BytesRepr(addr))
  ELSE <<>>

\* str(e) in /generate, as words
ErrorText(o, rq, sid, addr) == ErrorWords(o) \o ErrorOrigin(o, rq, sid, addr)

\* the fixed texts /generate answers with
TplContentPolicy == <<"Content", "Policy", "Error">>
TplSafety == <<"Safety", "Filter", "Error">>
TplImageOther == <<"API", "returned", "IMAGE", "OTHER", "error">>
TplServer500 == <<"API", "returned", "500", "INTERNAL", "error">>
TplFailed == <<"Failed", "to", "generate", "image">>
TplSuccess == <<"Image", "generated", "successfully">>

\* "Provide user-friendly error messages": the substring tests on str(e);
\* an unmatched text is passed on as it is
UserErrorMessage(words) ==
  IF Contains(PROHIBITED_CONTENT, words) THEN TplContentPolicy
  ELSE IF Contains(SAFETY, words) THEN TplSafety
  ELSE IF Contains(IMAGE_OTHER, words) THEN TplImageOther
  ELSE IF Contains(<<"500">>, words) \/ Contains(<<"INTERNAL">>, words) THEN TplServer500
  ELSE words

\* db.session.add and commit inside try/except: a commit that raises is
\* logged and leaves no record
Committed(table, record, commits) == IF commits THEN Append(table, record) ELSE table
CommitState(commits) == IF commits THEN "ok" ELSE "failed"

\* the part of /generate that follows the swap_garment call: the except arm
\* translates and records the failure, a produced image is recorded as a
\* success, a None result is answered without a record. commits tells
\* whether db.session.commit() goes through, addr is the address in an
\* object's repr
Respond(commits, addr) ==
  /\ pc = "done"
  /\ reply = NoReply
  /\ IF outcome.kind = "raise"
     THEN LET words == ErrorText(outcome, req, session_id, addr)
              text == UserErrorMessage(words) IN
          /\ reply' = [http |-> 500, templated |-> text # words, text |-> text,
                       commit |-> CommitState(commits)]
          /\ db' = Committed(db, [type |-> "garment_swap", success |-> FALSE,
                                  error_message |-> text], commits)
     ELSE IF outcome.kind = "Success"
     THEN /\ reply' = [http |-> 200, templated |-> TRUE, text |-> TplSuccess,
                       commit |-> CommitState(commits)]
          /\ db' = Committed(db, [type |-> "garment_swap", success |-> TRUE,
                                  error_message |-> <<>>], commits)
     ELSE /\ reply' = [http |-> 500, templated |-> TRUE, text |-> TplFailed, commit |-> "none"]
          /\ UNCHANGED db
  /\ UNCHANGED session_id
  /\ UNCHANGED <<swapVars, sizeVars, promptVars, laterVars>>

Next ==
  \/ Validate
  \/ \E beh \in Behaviours : Attempt(beh)
  \/ LoopExit
  \/ \E commits \in BOOLEAN, addr \in ObjectAddresses : Respond(commits, addr)

Spec == Init /\ [][Next]_vars

\* every step is taken eventually: the call is synchronous on one thread and
\* each API call returns
FairSpec == Spec /\ WF_vars(Next)


\* =================================================================
\* Properties of swap_garment
\* =================================================================
Max0(n) == IF n > 0 THEN n ELSE 0

AllApiErrors == \A i \in 1..Len(log) : log[i].tag = "api_error"

ApiErrorsBefore(i) == Cardinality({ j \in 1..(i - 1) : log[j].tag = "api_error" })

RECURSIVE SumSeq(_)
SumSeq(q) == IF q = <<>> THEN 0 ELSE Head(q) + SumSeq(Tail(q))

EmptyTags == {"no_candidates", "no_inline", "null_content"}

\* C1: an attempt that completes without an exception but yields no image
\* (no candidates, parts without inline data, null content with no
\* recognised finish reason) is the last attempt of the call: no further
\* API call follows it.
C1_EmptyNotRetried ==
  \A i \in 1..Len(log) : log[i].tag \in EmptyTags => i = Len(log)

\* C2: attempt k+1 is started only if attempt k ended with an API error; in
\* particular an IMAGE_OTHER attempt is never followed by another attempt.
C2_OnlyApiErrorsRetried ==
  \A i \in 1..(Len(log) - 1) : log[i].tag = "api_error"

\* C3: if every API call fails with an API error, the call ends after
\* exactly max_retries API calls and raises the API error of the last attempt.
C3_ExhaustsExactlyMaxRetries ==
  (Len(log) >= 1 /\ AllApiErrors) =>
     /\ api_calls = Len(log)
     /\ api_calls <= config.max_retries
     /\ pc = "done" =>
          /\ api_calls = config.max_retries
          /\ outcome = Outcome("raise", "APIError", "", log[Len(log)].code)
          /\ last_exception = log[Len(log)].code

C3_Witness ==
  /\ pc = "done"
  /\ config.max_retries = DefaultMaxRetries
  /\ Len(log) = DefaultMaxRetries
  /\ AllApiErrors
  /\ log[1].code # log[Len(log)].code
  /\ outcome.code = log[Len(log)].code

\* C4: API errors on the first k attempts (k < max_retries) and an image on
\* attempt k+1 give Success after exactly k+1 API calls, and the successful
\* call is the last one.
C4_SuccessAfterTransientErrors ==
  \A n \in 1..Len(log) :
     (log[n].tag = "saved" /\ \A i \in 1..(n - 1) : log[i].tag = "api_error") =>
        /\ n = Len(log)
        /\ pc = "done"
        /\ outcome.kind = "Success"
        /\ api_calls = n
        /\ n <= config.max_retries

C4_Witness ==
  /\ pc = "done"
  /\ Len(log) = 3
  /\ log[1].tag = "api_error"
  /\ log[2].tag = "api_error"
  /\ log[3].tag = "saved"
  /\ outcome.kind = "Success"
  /\ api_calls = 3

\* C5: whatever the API does, one invocation makes at most max_retries API
\* calls, at most one per attempt, and it terminates with an outcome.
C5_BoundedCallsAndTermination ==
  /\ [](/\ api_calls <= Max0(config.max_retries)
        /\ api_calls <= Len(log)
        /\ Len(log) <= Max0(config.max_retries)
        /\ (pc = "done" => outcome.kind \in {"Success", "None", "raise"}))
  /\ <>(pc = "done")

C5_Witness ==
  /\ pc = "done"
  /\ config.max_retries = DefaultMaxRetries
  /\ api_calls = DefaultMaxRetries
  /\ outcome.kind = "None"
  /\ \E i \in 1..Len(log) : log[i].tag = "api_error"
  /\ \E i \in 1..Len(log) : log[i].tag = "no_candidates"

IsNullContent(b) ==
  /\ b.kind = "Response"
  /\ b.candidates = "one"
  /\ b.candidate = "obj"
  /\ b.content = "null"
  /\ b.finishattr

\* C6: a response with null content whose finish reason contains
\* PROHIBITED_CONTENT, or SAFETY, ends the call at that API call (one call
\* when it is the first) with no retry, and the two raise different messages.
C6_BlocksEndTheCall ==
  /\ (IsNullContent(last_response) /\ Contains(PROHIBITED_CONTENT, last_response.finish)) =>
        /\ pc = "done"
        /\ outcome = Outcome("raise", "Exception", MsgProhibited, 0)
        /\ (Len(log) = 1 => api_calls = 1)
  /\ (IsNullContent(last_response) /\ Contains(SAFETY, last_response.finish)) =>
        /\ pc = "done"
        /\ outcome = Outcome("raise", "Exception", MsgSafety, 0)
        /\ outcome.msg # MsgProhibited
        /\ (Len(log) = 1 => api_calls = 1)

C6_Witness ==
  /\ pc = "done"
  /\ IsNullContent(last_response)
  /\ last_response.finish = <<"FinishReason", "SAFETY">>
  /\ api_calls = 1
  /\ outcome.msg = MsgSafety

\* C7: an exception other than an API error raised during an attempt ends
\* the call at that attempt: it is the last attempt, no sleep follows it,
\* and the exception is what the caller gets.
C7_OtherExceptionsAbort ==
  \A i \in 1..Len(log) :
     (log[i].exc \notin {"", "APIError"}) =>
        /\ i = Len(log)
        /\ pc = "done"
        /\ outcome.kind = "raise"
        /\ outcome.exc = log[i].exc
        /\ Len(sleeps) = ApiErrorsBefore(i)

C7_Witness ==
  /\ pc = "done"
  /\ req.flatlay = "corrupt"
  /\ config.max_retries = DefaultMaxRetries
  /\ Len(log) = 1
  /\ log[1].tag = "load_error"
  /\ api_calls = 0
  /\ sleeps = <<>>
  /\ outcome.exc = "UnidentifiedImageError"

\* C8: a missing model, flat-lay or supplied guidance image fails with
\* FileNotFoundError before the retry loop: no attempt, no API call, no write.
C8_MissingInputFailsFirst ==
  (pc # "start" /\ (req.model = "missing" \/ req.flatlay = "missing"
                     \/ req.additional = "missing")) =>
     /\ pc = "done"
     /\ outcome.kind = "raise"
     /\ outcome.exc = "FileNotFoundError"
     /\ attempt = 0
     /\ log = <<>>
     /\ api_calls = 0
     /\ writes = 0
     /\ sleeps = <<>>

C8_Witness ==
  /\ pc = "done"
  /\ req.model = "ok"
  /\ req.flatlay = "ok"
  /\ req.additional = "missing"
  /\ config.max_retries = DefaultMaxRetries
  /\ outcome = Outcome("raise", "FileNotFoundError", MsgAdditionalNotFound, 0)

\* the waits the claim prescribes for a log: i * retry_delay after each
\* attempt i < max_retries that ended with an API error
RECURSIVE BackoffOf(_, _, _)
BackoffOf(lg, i, cfg) ==
  IF i > Len(lg) THEN <<>>
  ELSE (IF lg[i].tag = "api_error" /\ i < cfg.max_retries
        THEN <<i * cfg.retry_delay>> ELSE <<>>) \o BackoffOf(lg, i + 1, cfg)

\* C9: after the i-th attempt fails with an API error and i < max_retries the
\* call sleeps i * retry_delay; nothing is slept after the last allowed
\* attempt; a call whose attempts all fail sleeps
\* retry_delay * (1 + ... + (max_retries - 1)) in total.
C9_LinearBackoff ==
  /\ sleeps = BackoffOf(log, 1, config)
  /\ (pc = "done" /\ Len(log) >= 1 /\ AllApiErrors) =>
        SumSeq(sleeps) =
          config.retry_delay * ((config.max_retries * (config.max_retries - 1)) \div 2)

C9_Witness ==
  /\ pc = "done"
  /\ config.max_retries = DefaultMaxRetries
  /\ config.retry_delay = 2
  /\ AllApiErrors
  /\ sleeps = <<2, 4>>

\* the response shapes the interface section documents as malformed
MalformedShapes ==
  { NoCandidates(c) : c \in {"absent", "empty"} }
  \cup { NullContent(FALSE, <<"None">>), NullContent(TRUE, <<"None">>),
         NullContent(TRUE, <<"FinishReason", "STOP">>) }
  \cup { WithParts("noattr", <<>>), WithParts("null", <<>>),
         WithParts("list", <<>>), WithParts("list", <<"text">>) }

\* C10: when the last response of a call is one of the documented malformed
\* shapes, the call ends with the 'no image' result (None), never with a
\* raised exception.
C10_MalformedShapesTolerated ==
  (pc = "done" /\ last_response \in MalformedShapes) => outcome.kind = "None"


\* =================================================================
\* Properties of the outcome as the caller sees it
\* =================================================================
Replied == reply # NoReply

\* C11: each documented response shape maps to its documented outcome kind:
\* no candidates, content without parts and parts without inline data give
\* the 'no image' result; null content with a policy, a safety or an
\* IMAGE_OTHER finish reason gives three failures that differ from each other
\* and from the 'no image' result.
C11_ShapesMapToOutcomeKinds ==
  LET r == last_response IN
  pc = "done" =>
    /\ r \in { NoCandidates("absent"), NoCandidates("empty"),
               WithParts("noattr", <<>>), WithParts("list", <<>>),
               WithParts("list", <<"text">>) } =>
          /\ outcome.kind = "None"
          /\ Replied => reply.text = TplFailed
    /\ (IsNullContent(r) /\ Contains(PROHIBITED_CONTENT, r.finish)) =>
          /\ outcome.kind = "raise"
          /\ Replied => reply.text = TplContentPolicy
    /\ (IsNullContent(r) /\ Contains(SAFETY, r.finish)) =>
          /\ outcome.kind = "raise"
          /\ Replied => reply.text = TplSafety
    /\ (IsNullContent(r) /\ Contains(IMAGE_OTHER, r.finish)) =>
          /\ outcome.kind = "raise"
          /\ Replied => reply.text = TplImageOther

\* C12: the output file is written exactly once by an invocation that returns
\* Success (also when several parts carry inline data) and never by an
\* invocation that ends in a failure.
C12_WritesOnceOnSuccessOnly ==
  /\ writes <= 1
  /\ pc # "done" => writes = 0
  /\ pc = "done" => (outcome.kind = "Success" <=> writes = 1)

C12_Witness ==
  /\ pc = "done"
  /\ Len(log) = 2
  /\ log[1].tag = "no_inline"
  /\ last_response = WithParts("list", <<"image", "image">>)
  /\ outcome.kind = "Success"
  /\ writes = 1

ErrorTemplates == {TplContentPolicy, TplSafety, TplImageOther, TplServer500, TplFailed}

\* C13: every failure answer carries one of the fixed explanation texts,
\* never the text of the exception itself.
C13_FailuresAreTemplated ==
  (Replied /\ reply.http = 500) => reply.text \in ErrorTemplates


\* =================================================================
\* Image sizes: /generate's output-size choice, the preparation of the
\* inputs in _perform_swap and the sizing of the saved image
\* =================================================================
MaxDimensionTwo == 2048
MaxDimensionThree == 1536

MaxSide(i) == IF i.w > i.h THEN i.w ELSE i.h

RECURSIVE Pow2(_)
Pow2(n) == IF n = 0 THEN 1 ELSE 2 * Pow2(n - 1)

\* 2^k mod m
RECURSIVE Pow2Mod(_, _)
Pow2Mod(k, m) == IF k = 0 THEN 1 % m ELSE (2 * Pow2Mod(k - 1, m)) % m

Log2Floor(x) == CHOOSE e \in 0..24 : Pow2(e) <= x /\ x < Pow2(e + 1)

\* the least j >= 1 with d * 2^j >= m: d / m lies in [2^-j, 2^(1-j))
BinaryShift(d, m) ==
  CHOOSE j \in 1..24 : d * Pow2(j) >= m /\ (j = 1 \/ d * Pow2(j - 1) < m)

\* Whether the double w * (d / m) falls below the integer w*d/m it would be
\* in exact arithmetic (m divides w*d, 0 < d < m, 0 < w <= m). The ratio
\* d / m is rounded to 53 bits: with k = 52 + j it is Q / 2^k or (Q+1) / 2^k,
\* where d * 2^k = Q*m + R. Rounded down (0 < 2R < m), the product misses
\* the integer x by w*R / (m * 2^k), and it is rounded back to x only if
\* that is at most half the spacing of the doubles just below x.
RoundsBelow(w, d, m) ==
  LET j == BinaryShift(d, m)
      R == (d * Pow2Mod(52 + j, m)) % m
      x == (w * d) \div m
      e == Log2Floor(x)
      t == IF x = Pow2(e) THEN j + e - 2 ELSE j + e - 1
  IN /\ R # 0
     /\ 2 * R < m
     /\ IF t >= 0 THEN w * R > m * Pow2(t) ELSE 2 * w * R > m

\* int(side * ratio) with ratio = d / m computed in double precision
FloatScale(w, d, m) ==
  LET x == (w * d) \div m IN
  IF w = 0 \/ (w * d) % m # 0 THEN x
  ELSE IF RoundsBelow(w, d, m) THEN x - 1
  ELSE x

\* image.resize(new_size) with ratio = d / max(image.size)
Resize(i, d) ==
  Img(FloatScale(i.w, d, MaxSide(i)), FloatScale(i.h, d, MaxSide(i)), i.mode)

\* Image.resize rejects a size with a zero side (ValueError)
ResizeFails(i, d) == Resize(i, d).w = 0 \/ Resize(i, d).h = 0

\* variant: the two-image ceiling whatever the number of images
MaxDimension_AlwaysTwo(additional) == MaxDimensionTwo

\* max_dimension = 1536 if additional_image else 2048
MaxDimension(additional) ==
  IF additional # NoImg THEN MaxDimensionThree ELSE MaxDimensionTwo

\* one input after the resize block and the conversion to RGB
PrepareOne(i, d) ==
  LET r == IF MaxSide(i) > d THEN Resize(i, d) ELSE i
  IN Img(r.w, r.h, "RGB")

\* contents[1:] of the API request
PreparedContents(im) ==
  LET d == MaxDimension(im.additional) IN
  <<PrepareOne(im.model, d), PrepareOne(im.flatlay, d)>>
  \o (IF im.additional # NoImg THEN <<PrepareOne(im.additional, d)>> ELSE <<>>)

\* whether loading or resizing the inputs raises: Image.open on any of the
\* three files that cannot be decoded, or a resize to a side of zero
PrepareFails(im) ==
  LET d == MaxDimension(im.additional) IN
  \/ \E i \in {im.model, im.flatlay, im.additional} : i.mode = "corrupt"
  \/ \E i \in {im.model, im.flatlay, im.additional} :
        i # NoImg /\ MaxSide(i) > d /\ ResizeFails(i, d)

\* ------------------------------------------------ the form value output_size
\* The decimal digits int() accepts: every character of category Nd of
\* Unicode 14.0.0, in rows of ten by value; a character outside ASCII is written
\* by its code point.
DecimalDigits ==
  <<
     <<"0", "1", "2", "3", "4", "5", "6", "7", "8", "9">>,
     <<"U+0660", "U+0661", "U+0662", "U+0663", "U+0664", "U+0665", "U+0666", "U+0667", "U+0668", "U+0669">>,
     <<"U+06F0", "U+06F1", "U+06F2", "U+06F3", "U+06F4", "U+06F5", "U+06F6", "U+06F7", "U+06F8", "U+06F9">>,
     <<"U+07C0", "U+07C1", "U+07C2", "U+07C3", "U+07C4", "U+07C5", "U+07C6", "U+07C7", "U+07C8", "U+07C9">>,
     <<"U+0966", "U+0967", "U+0968", "U+0969", "U+096A", "U+096B", "U+096C", "U+096D", "U+096E", "U+096F">>,
     <<"U+09E6", "U+09E7", "U+09E8", "U+09E9", "U+09EA", "U+09EB", "U+09EC", "U+09ED", "U+09EE", "U+09EF">>,
     <<"U+0A66", "U+0A67", "U+0A68", "U+0A69", "U+0A6A", "U+0A6B", "U+0A6C", "U+0A6D", "U+0A6E", "U+0A6F">>,
     <<"U+0AE6", "U+0AE7", "U+0AE8", "U+0AE9", "U+0AEA", "U+0AEB", "U+0AEC", "U+0AED", "U+0AEE", "U+0AEF">>,
     <<"U+0B66", "U+0B67", "U+0B68", "U+0B69", "U+0B6A", "U+0B6B", "U+0B6C", "U+0B6D", "U+0B6E", "U+0B6F">>,
     <<"U+0BE6", "U+0BE7", "U+0BE8", "U+0BE9", "U+0BEA", "U+0BEB", "U+0BEC", "U+0BED", "U+0BEE", "U+0BEF">>,
     <<"U+0C66", "U+0C67", "U+0C68", "U+0C69", "U+0C6A", "U+0C6B", "U+0C6C", "U+0C6D", "U+0C6E", "U+0C6F">>,
     <<"U+0CE6", "U+0CE7", "U+0CE8", "U+0CE9", "U+0CEA", "U+0CEB", "U+0CEC", "U+0CED", "U+0CEE", "U+0CEF">>,
     <<"U+0D66", "U+0D67", "U+0D68", "U+0D69", "U+0D6A", "U+0D6B", "U+0D6C", "U+0D6D", "U+0D6E", "U+0D6F">>,
     <<"U+0DE6", "U+0DE7", "U+0DE8", "U+0DE9", "U+0DEA", "U+0DEB", "U+0DEC", "U+0DED", "U+0DEE", "U+0DEF">>,
     <<"U+0E50", "U+0E51", "U+0E52", "U+0E53", "U+0E54", "U+0E55", "U+0E56", "U+0E57", "U+0E58", "U+0E59">>,
     <<"U+0ED0", "U+0ED1", "U+0ED2", "U+0ED3", "U+0ED4", "U+0ED5", "U+0ED6", "U+0ED7", "U+0ED8", "U+0ED9">>,
     <<"U+0F20", "U+0F21", "U+0F22", "U+0F23", "U+0F24", "U+0F25", "U+0F26", "U+0F27", "U+0F28", "U+0F29">>,
     <<"U+1040", "U+1041", "U+1042", "U+1043", "U+1044", "U+1045", "U+1046", "U+1047", "U+1048", "U+1049">>,
     <<"U+1090", "U+1091", "U+1092", "U+1093", "U+1094", "U+1095", "U+1096", "U+1097", "U+1098", "U+1099">>,
     <<"U+17E0", "U+17E1", "U+17E2", "U+17E3", "U+17E4", "U+17E5", "U+17E6", "U+17E7", "U+17E8", "U+17E9">>,
     <<"U+1810", "U+1811", "U+1812", "U+1813", "U+1814", "U+1815", "U+1816", "U+1817", "U+1818", "U+1819">>,
     <<"U+1946", "U+1947", "U+1948", "U+1949", "U+194A", "U+194B", "U+194C", "U+194D", "U+194E", "U+194F">>,
     <<"U+19D0", "U+19D1", "U+19D2", "U+19D3", "U+19D4", "U+19D5", "U+19D6", "U+19D7", "U+19D8", "U+19D9">>,
     <<"U+1A80", "U+1A81", "U+1A82", "U+1A83", "U+1A84", "U+1A85", "U+1A86", "U+1A87", "U+1A88", "U+1A89">>,
     <<"U+1A90", "U+1A91", "U+1A92", "U+1A93", "U+1A94", "U+1A95", "U+1A96", "U+1A97", "U+1A98", "U+1A99">>,
     <<"U+1B50", "U+1B51", "U+1B52", "U+1B53", "U+1B54", "U+1B55", "U+1B56", "U+1B57", "U+1B58", "U+1B59">>,
     <<"U+1BB0", "U+1BB1", "U+1BB2", "U+1BB3", "U+1BB4", "U+1BB5", "U+1BB6", "U+1BB7", "U+1BB8", "U+1BB9">>,
     <<"U+1C40", "U+1C41", "U+1C42", "U+1C43", "U+1C44", "U+1C45", "U+1C46", "U+1C47", "U+1C48", "U+1C49">>,
     <<"U+1C50", "U+1C51", "U+1C52", "U+1C53", "U+1C54", "U+1C55", "U+1C56", "U+1C57", "U+1C58", "U+1C59">>,
     <<"U+A620", "U+A621", "U+A622", "U+A623", "U+A624", "U+A625", "U+A626", "U+A627", "U+A628", "U+A629">>,
     <<"U+A8D0", "U+A8D1", "U+A8D2", "U+A8D3", "U+A8D4", "U+A8D5", "U+A8D6", "U+A8D7", "U+A8D8", "U+A8D9">>,
     <<"U+A900", "U+A901", "U+A902", "U+A903", "U+A904", "U+A905", "U+A906", "U+A907", "U+A908", "U+A909">>,
     <<"U+A9D0", "U+A9D1", "U+A9D2", "U+A9D3", "U+A9D4", "U+A9D5", "U+A9D6", "U+A9D7", "U+A9D8", "U+A9D9">>,
     <<"U+A9F0", "U+A9F1", "U+A9F2", "U+A9F3", "U+A9F4", "U+A9F5", "U+A9F6", "U+A9F7", "U+A9F8", "U+A9F9">>,
     <<"U+AA50", "U+AA51", "U+AA52", "U+AA53", "U+AA54", "U+AA55", "U+AA56", "U+AA57", "U+AA58", "U+AA59">>,
     <<"U+ABF0", "U+ABF1", "U+ABF2", "U+ABF3", "U+ABF4", "U+ABF5", "U+ABF6", "U+ABF7", "U+ABF8", "U+ABF9">>,
     <<"U+FF10", "U+FF11", "U+FF12", "U+FF13", "U+FF14", "U+FF15", "U+FF16", "U+FF17", "U+FF18", "U+FF19">>,
     <<"U+104A0", "U+104A1", "U+104A2", "U+104A3", "U+104A4", "U+104A5", "U+104A6", "U+104A7", "U+104A8", "U+104A9">>,
     <<"U+10D30", "U+10D31", "U+10D32", "U+10D33", "U+10D34", "U+10D35", "U+10D36", "U+10D37", "U+10D38", "U+10D39">>,
     <<"U+11066", "U+11067", "U+11068", "U+11069", "U+1106A", "U+1106B", "U+1106C", "U+1106D", "U+1106E", "U+1106F">>,
     <<"U+110F0", "U+110F1", "U+110F2", "U+110F3", "U+110F4", "U+110F5", "U+110F6", "U+110F7", "U+110F8", "U+110F9">>,
     <<"U+11136", "U+11137", "U+11138", "U+11139", "U+1113A", "U+1113B", "U+1113C", "U+1113D", "U+1113E", "U+1113F">>,
     <<"U+111D0", "U+111D1", "U+111D2", "U+111D3", "U+111D4", "U+111D5", "U+111D6", "U+111D7", "U+111D8", "U+111D9">>,
     <<"U+112F0", "U+112F1", "U+112F2", "U+112F3", "U+112F4", "U+112F5", "U+112F6", "U+112F7", "U+112F8", "U+112F9">>,
     <<"U+11450", "U+11451", "U+11452", "U+11453", "U+11454", "U+11455", "U+11456", "U+11457", "U+11458", "U+11459">>,
     <<"U+114D0", "U+114D1", "U+114D2", "U+114D3", "U+114D4", "U+114D5", "U+114D6", "U+114D7", "U+114D8", "U+114D9">>,
     <<"U+11650", "U+11651", "U+11652", "U+11653", "U+11654", "U+11655", "U+11656", "U+11657", "U+11658", "U+11659">>,
     <<"U+116C0", "U+116C1", "U+116C2", "U+116C3", "U+116C4", "U+116C5", "U+116C6", "U+116C7", "U+116C8", "U+116C9">>,
     <<"U+11730", "U+11731", "U+11732", "U+11733", "U+11734", "U+11735", "U+11736", "U+11737", "U+11738", "U+11739">>,
     <<"U+118E0", "U+118E1", "U+118E2", "U+118E3", "U+118E4", "U+118E5", "U+118E6", "U+118E7", "U+118E8", "U+118E9">>,
     <<"U+11950", "U+11951", "U+11952", "U+11953", "U+11954", "U+11955", "U+11956", "U+11957", "U+11958", "U+11959">>,
     <<"U+11C50", "U+11C51", "U+11C52", "U+11C53", "U+11C54", "U+11C55", "U+11C56", "U+11C57", "U+11C58", "U+11C59">>,
     <<"U+11D50", "U+11D51", "U+11D52", "U+11D53", "U+11D54", "U+11D55", "U+11D56", "U+11D57", "U+11D58", "U+11D59">>,
     <<"U+11DA0", "U+11DA1", "U+11DA2", "U+11DA3", "U+11DA4", "U+11DA5", "U+11DA6", "U+11DA7", "U+11DA8", "U+11DA9">>,
     <<"U+16A60", "U+16A61", "U+16A62", "U+16A63", "U+16A64", "U+16A65", "U+16A66", "U+16A67", "U+16A68", "U+16A69">>,
     <<"U+16AC0", "U+16AC1", "U+16AC2", "U+16AC3", "U+16AC4", "U+16AC5", "U+16AC6", "U+16AC7", "U+16AC8", "U+16AC9">>,
     <<"U+16B50", "U+16B51", "U+16B52", "U+16B53", "U+16B54", "U+16B55", "U+16B56", "U+16B57", "U+16B58", "U+16B59">>,
     <<"U+1D7CE", "U+1D7CF", "U+1D7D0", "U+1D7D1", "U+1D7D2", "U+1D7D3", "U+1D7D4", "U+1D7D5", "U+1D7D6", "U+1D7D7">>,
     <<"U+1D7D8", "U+1D7D9", "U+1D7DA", "U+1D7DB", "U+1D7DC", "U+1D7DD", "U+1D7DE", "U+1D7DF", "U+1D7E0", "U+1D7E1">>,
     <<"U+1D7E2", "U+1D7E3", "U+1D7E4", "U+1D7E5", "U+1D7E6", "U+1D7E7", "U+1D7E8", "U+1D7E9", "U+1D7EA", "U+1D7EB">>,
     <<"U+1D7EC", "U+1D7ED", "U+1D7EE", "U+1D7EF", "U+1D7F0", "U+1D7F1", "U+1D7F2", "U+1D7F3", "U+1D7F4", "U+1D7F5">>,
     <<"U+1D7F6", "U+1D7F7", "U+1D7F8", "U+1D7F9", "U+1D7FA", "U+1D7FB", "U+1D7FC", "U+1D7FD", "U+1D7FE", "U+1D7FF">>,
     <<"U+1E140", "U+1E141", "U+1E142", "U+1E143", "U+1E144", "U+1E145", "U+1E146", "U+1E147", "U+1E148", "U+1E149">>,
     <<"U+1E2F0", "U+1E2F1", "U+1E2F2", "U+1E2F3", "U+1E2F4", "U+1E2F5", "U+1E2F6", "U+1E2F7", "U+1E2F8", "U+1E2F9">>,
     <<"U+1E950", "U+1E951", "U+1E952", "U+1E953", "U+1E954", "U+1E955", "U+1E956", "U+1E957", "U+1E958", "U+1E959">>,
     <<"U+1FBF0", "U+1FBF1", "U+1FBF2", "U+1FBF3", "U+1FBF4", "U+1FBF5", "U+1FBF6", "U+1FBF7", "U+1FBF8", "U+1FBF9">>
  >>

Digits == { DecimalDigits[r][i] : r \in 1..Len(DecimalDigits), i \in 1..10 }

\* the value of a decimal digit
DigitVal(c) ==
  CHOOSE v \in 0..9 : \E r \in 1..Len(DecimalDigits) : DecimalDigits[r][v + 1] = c

\* the value of an int below 2^31, from its digits
RECURSIVE IntOf(_)
IntOf(digits) ==
  IF digits = <<>> THEN 0
  ELSE 10 * IntOf(SubSeq(digits, 1, Len(digits) - 1)) + digits[Len(digits)]

\* sys.int_info.default_max_str_digits: int() raises ValueError for a number
\* of more digits; the program leaves the limit as it is
MaxStrDigits == 4300

\* int(str): [ok, n]; ok is FALSE where int() raises ValueError.  The
\* whitespace around the number is dropped, one sign may lead, single
\* underscores may stand between digits, and the digits (leading zeros
\* included, underscores not) are at most MaxStrDigits.  The whitespace of
\* int() is that of str.strip() without the separators U+001C to U+001F.
\* n is the exact value, of any size.
ParseInt(str) ==
  LET IntSpace(ch) ==
        ch \in Whitespace /\ ch \notin {"U+001C", "U+001D", "U+001E", "U+001F"}
      inner == { i \in 1..Len(str) : ~IntSpace(str[i]) }
      first == CHOOSE i \in inner : \A j \in 1..(i - 1) : IntSpace(str[j])
      last == CHOOSE i \in inner : \A j \in (i + 1)..Len(str) : IntSpace(str[j])
      s == IF inner = {} THEN <<>> ELSE SubSeq(str, first, last)
      signed == s # <<>> /\ s[1] \in {"+", "-"}
      neg == s # <<>> /\ s[1] = "-"
      body == IF signed THEN Tail(s) ELSE s
      IsDigit(ch) == ch \in Digits
      wellFormed ==
        /\ body # <<>>
        /\ \A i \in 1..Len(body) : body[i] \in Digits \/ body[i] = "_"
        /\ body[1] \in Digits
        /\ body[Len(body)] \in Digits
        /\ \A i \in 1..(Len(body) - 1) : ~(body[i] = "_" /\ body[i + 1] = "_")
        /\ Len(SelectSeq(body, IsDigit)) <= MaxStrDigits
      digits == SelectSeq(body, IsDigit)
      nonzero == { i \in 1..Len(digits) : DigitVal(digits[i]) # 0 }
      \* leading zeros add nothing to the value
      significant ==
        IF nonzero = {} THEN <<>>
        ELSE SubSeq(digits,
                    CHOOSE i \in nonzero : \A j \in 1..(i - 1) : DigitVal(digits[j]) = 0,
                    Len(digits))
      value == [i \in 1..Len(significant) |-> DigitVal(significant[i])]
  IN IF wellFormed
     THEN [ok |-> TRUE, n |-> [neg |-> neg /\ value # <<>>, digits |-> value]]
     ELSE [ok |-> FALSE, n |-> PyInt(0)]

Original == <<"o", "r", "i", "g", "i", "n", "a", "l">>

\* max(model_img.size), or None when the model image cannot be read
ModelMaxDimension(model) ==
  IF model.mode = "corrupt" THEN NoneSize ELSE IntSize(PyInt(MaxSide(model)))

\* "Parse output size"
ParsedOutputSize(pref, model) ==
  IF pref # <<>> /\ pref # Original
  THEN (IF ParseInt(pref).ok THEN IntSize(ParseInt(pref).n)
        ELSE ModelMaxDimension(model))
  ELSE ModelMaxDimension(model)

\* "Resize output if requested": the size of the image that is saved
OutputSize(g, mos) ==
  IF /\ ~mos.none
     /\ mos.n.digits # <<>>
     /\ ~mos.n.neg
     /\ Exceeds(MaxSide(g), mos.n)
  THEN Resize(g, IntOf(mos.n.digits))
  ELSE g

\* ------------------------------------------------------------ the inputs
ModelImages ==
  { Img(1200, 1600, "RGB"), Img(2215, 1000, "RGBA"), Img(2048, 1536, "RGB"),
    Img(3000, 4000, "L"), Img(2073, 2073, "P"), Img(4100, 1, "RGB"),
    Img(900, 700, "RGB"), Img(0, 0, "corrupt") }
FlatlayImages ==
  { Img(800, 800, "RGB"), Img(1700, 1700, "RGBA"), Img(2500, 3000, "RGB"),
    Img(0, 0, "corrupt") }
AdditionalImages ==
  { NoImg, Img(1000, 700, "RGB"), Img(1600, 2000, "P"), Img(0, 0, "corrupt") }
GeneratedImages ==
  { Img(1024, 1024, "RGB"), Img(1122, 800, "RGB"), Img(2156, 1200, "RGB"),
    Img(1600, 1200, "RGBA"), Img(2048, 2048, "RGB"), Img(848, 1264, "RGB"),
    Img(3000, 1, "RGB") }
OutPrefs ==
  { Original, <<>>, <<"5", "1", "2">>, <<"1", "0", "2", "4">>,
    <<"2", "0", "4", "8">>, <<"0">>, <<"-", "5">>, <<"a", "b", "c">>,
    <<" ", "5", "1", "2", "\n">>, <<"+", "5">>, <<"1", "_", "0", "2", "4">>,
    <<"1", "_", "_", "0">>, <<"U+001C", "5">>, <<"5", "U+00A0">>,
    <<"U+FF15", "U+FF11", "U+FF12">>, <<"5", "U+0665">>,
    <<"2", "1", "4", "7", "4", "8", "3", "6", "4", "8">>,
    <<"-", "2", "1", "4", "7", "4", "8", "3", "6", "4", "8">>,
    <<"9", "9", "9", "9", "9", "9", "9", "9", "9", "9", "9">>,
    [i \in 1..(MaxStrDigits + 1) |-> "0"],
    [i \in 1..MaxStrDigits |-> IF i = MaxStrDigits THEN "7" ELSE "0"] }

\* the retry loop is not followed
SwapIdle ==
  /\ config = [max_retries |-> DefaultMaxRetries, retry_delay |-> 1]
  /\ req = [model |-> "ok", flatlay |-> "ok", additional |-> "none"]
  /\ pc = "off"
  /\ attempt = 0
  /\ last_exception = 0
  /\ log = <<>>
  /\ last_response = NoBehaviour
  /\ api_calls = 0
  /\ sleeps = <<>>
  /\ writes = 0
  /\ outcome = Pending

SizeInit ==
  /\ SwapIdle
  /\ AppIdle
  /\ PromptIdle
  /\ LaterIdle
  /\ spc = "request"
  /\ imgs \in [model : ModelImages, flatlay : FlatlayImages,
               additional : AdditionalImages]
  /\ out_pref \in OutPrefs
  /\ max_output_size = NoneSize
  /\ sent = <<>>
  /\ generated = NoImg
  /\ saved = NoImg

\* /generate: the output size handed to swap_garment
ParseOutputSize ==
  /\ spc = "request"
  /\ spc' = "parsed"
  /\ max_output_size' = ParsedOutputSize(out_pref, imgs.model)
  /\ UNCHANGED <<imgs, out_pref, sent, generated, saved>>
  /\ UNCHANGED <<swapVars, appVars, promptVars, laterVars>>

\* _perform_swap up to the API call: load, resize, convert, build contents
PrepareImages ==
  /\ spc = "parsed"
  /\ IF PrepareFails(imgs)
     THEN /\ spc' = "failed"
          /\ UNCHANGED sent
     ELSE /\ spc' = "prepared"
          /\ sent' = PreparedContents(imgs)
  /\ UNCHANGED <<imgs, out_pref, max_output_size, generated, saved>>
  /\ UNCHANGED <<swapVars, appVars, promptVars, laterVars>>

\* _perform_swap after a response with inline image data g: resize, save
PostProcess(g) ==
  /\ spc = "prepared"
  /\ generated' = g
  /\ IF OutputSize(g, max_output_size).w = 0 \/ OutputSize(g, max_output_size).h = 0
     THEN /\ spc' = "failed"
          /\ UNCHANGED saved
     ELSE /\ spc' = "saved"
          /\ saved' = OutputSize(g, max_output_size)
  /\ UNCHANGED <<imgs, out_pref, max_output_size, sent>>
  /\ UNCHANGED <<swapVars, appVars, promptVars, laterVars>>

SizeNext ==
  \/ ParseOutputSize
  \/ PrepareImages
  \/ \E g \in GeneratedImages : PostProcess(g)

SizeSpec == SizeInit /\ [][SizeNext]_vars


\* =================================================================
\* Properties of the image sizes
\* =================================================================
\* the ceiling the specification prescribes for a request
Ceiling == IF imgs.additional # NoImg THEN 1536 ELSE 2048

\* the uploaded images in the order of the request
Uploaded ==
  <<imgs.model, imgs.flatlay>>
  \o (IF imgs.additional # NoImg THEN <<imgs.additional>> ELSE <<>>)

\* C14: every image of the API request is RGB and has a longest side of at
\* most 1536 px when a guidance image is sent and 2048 px otherwise.
C14_SentImagesWithinCeiling ==
  spc \in {"prepared", "saved"} =>
    /\ Len(sent) = Len(Uploaded)
    /\ \A k \in 1..Len(sent) :
          /\ sent[k].mode = "RGB"
          /\ MaxSide(sent[k]) <= Ceiling
          /\ sent[k].w >= 1 /\ sent[k].h >= 1

C14_Witness ==
  /\ spc = "prepared"
  /\ imgs.model = Img(2048, 1536, "RGB")
  /\ imgs.flatlay = Img(1700, 1700, "RGBA")
  /\ imgs.additional = Img(1600, 2000, "P")
  /\ Len(sent) = 3
  /\ sent[1] = Img(1536, 1152, "RGB")
  /\ MaxSide(sent[2]) <= 1536
  /\ sent[3].mode = "RGB"

\* |a - b|
Dist(a, b) == IF a > b THEN a - b ELSE b - a

\* C15: an input whose longest side exceeds the ceiling is sent with its
\* longest side equal to the ceiling and its other side scaled by the same
\* ratio, within integer rounding; an input at or under the ceiling is sent
\* with its dimensions unchanged, whatever happens to the other inputs.
C15_DownscaleToCeilingExactly ==
  spc = "prepared" =>
    \A k \in 1..Len(sent) :
       LET o == Uploaded[k]
           m == MaxSide(o)
       IN IF m > Ceiling
          THEN /\ MaxSide(sent[k]) = Ceiling
               /\ Dist(sent[k].w * m, o.w * Ceiling) <= m
               /\ Dist(sent[k].h * m, o.h * Ceiling) <= m
          ELSE sent[k].w = o.w /\ sent[k].h = o.h

\* n > 0 for an int n
IsPositive(n) == ~n.neg /\ n.digits # <<>>

\* C16: with an output ceiling, a generated image whose longest side exceeds
\* it is saved with its longest side equal to the ceiling, and one at or
\* below it is saved with exactly the generated dimensions.
C16_OutputSizingNeverUpscales ==
  (spc = "saved" /\ ~max_output_size.none /\ IsPositive(max_output_size.n)) =>
     IF Exceeds(MaxSide(generated), max_output_size.n)
     THEN PyInt(MaxSide(saved)) = max_output_size.n
     ELSE saved.w = generated.w /\ saved.h = generated.h

\* C17: the output size handed to swap_garment is the model image's longest
\* side or an explicit positive pixel dimension, never zero, negative or
\* absent.
C17_OutputSizeSpecification ==
  spc \in {"parsed", "prepared", "saved", "failed"} =>
     \/ (imgs.model.mode # "corrupt"
         /\ max_output_size = IntSize(PyInt(MaxSide(imgs.model))))
     \/ (~max_output_size.none /\ IsPositive(max_output_size.n))

\* a saved request with the preference 'match model', no guidance image and
\* a model image whose longest side is below 2048
MatchModelCase ==
  /\ spc = "saved"
  /\ out_pref = Original
  /\ imgs.additional = NoImg
  /\ MaxSide(imgs.model) < 2048

\* C18: in the match-model case the saved file's longest side is at most
\* 2048 and exactly the model image's original longest side.  The claim is
\* read with the policy of no upscaling it refers to: the equality is asked
\* only of a generated image at least as large as the model image.
C18_SavedMatchesModelSide ==
  (MatchModelCase /\ MaxSide(generated) >= MaxSide(imgs.model)) =>
    /\ MaxSide(saved) <= 2048
    /\ MaxSide(saved) = MaxSide(imgs.model)


\* =================================================================
\* PromptGenerator.generate_garment_swap_prompt
\* =================================================================
\* largest number of calls followed
MaxCalls == 2

\* A text is a sequence of lines (the text split at "\n"); a line is a
\* sequence of runs [ch, n]: n >= 1 copies of ch, adjacent runs differing in
\* ch. A line of a template is one run of the line's text.
Run(ch, n) == [ch |-> ch, n |-> n]
Line(text) == <<Run(text, 1)>>
Blank == <<>>

TaskLines ==
  << Line("TASK: You have images - (1) a photo of a model, (2) a flat-lay photo of a garment."),
     Line("Replace ONLY the clothing on the model with the garment from the flat-lay image."),
     Line("Everything else in the image must remain identical.") >>
PreserveHeading == Line("PRESERVE (keep identical):")
FaceLine == Line("DO NOT CHANGE: The model's face - keep it identical (same features, expression, skin tone, hair, makeup).")
PoseLine == Line("DO NOT CHANGE: The model's pose, body, proportions, posture, position, or stance.")
LightingLine == Line("DO NOT CHANGE: The lighting - keep it identical (same direction, intensity, shadows, highlights).")
BackgroundLine == Line("DO NOT CHANGE: The background - keep it identical.")
ReplaceHeading == Line("REPLACE (change this only):")
GarmentInstruction ==
  << Line("ONLY CHANGE: The garment. Replace the model's current clothing with the garment from the flat-lay image."),
     Blank,
     Line("CRITICAL: The garment from the flat-lay must NOT be modified in any way when transferring to the model."),
     Line("- Use the garment EXACTLY as shown in the flat-lay image"),
     Line("- Same color, same texture, same patterns, same knit structure, same buttons/details"),
     Line("- Do not alter, adjust, or modify the garment's appearance"),
     Line("- Do not change colors, textures, or patterns"),
     Line("- The garment should fit the model's body naturally, but its visual appearance (color, texture, patterns, details) must match the flat-lay image exactly without any modifications.") >>
OutputLine == Line("Output: Professional fashion photography quality, sharp focus.")

\* variant: the background line follows the preserve_lighting flag
GarmentSwapPrompt_BackgroundByLighting(desc, face, lighting, background) ==
  TaskLines \o <<Blank, PreserveHeading>>
  \o (IF face THEN <<FaceLine>> ELSE <<>>)
  \o <<PoseLine>>
  \o (IF lighting THEN <<LightingLine>> ELSE <<>>)
  \o (IF lighting THEN <<BackgroundLine>> ELSE <<>>)
  \o <<Blank, ReplaceHeading>> \o GarmentInstruction
  \o <<Blank, OutputLine>>

\* generate_garment_swap_prompt: garment_description is accepted and not used
GarmentSwapPrompt(desc, face, lighting, background) ==
  TaskLines \o <<Blank, PreserveHeading>>
  \o (IF face THEN <<FaceLine>> ELSE <<>>)
  \o <<PoseLine>>
  \o (IF lighting THEN <<LightingLine>> ELSE <<>>)
  \o (IF background THEN <<BackgroundLine>> ELSE <<>>)
  \o <<Blank, ReplaceHeading>> \o GarmentInstruction
  \o <<Blank, OutputLine>>

\* garment_description: None ("") or a description
Descriptions == {"", "Luxury cashmere beige color.", "Luxury cashmere cable knit pattern, camel color."}

PromptInit ==
  /\ SwapIdle
  /\ AppIdle
  /\ SizeIdle
  /\ AiIdle
  /\ BatchIdle
  /\ IterIdle
  /\ luxury = <<>>
  /\ calls = <<>>
  /\ rpc = "off"
  /\ refinements = <<>>
  /\ additional_path = FALSE
  /\ full_prompt = <<>>

\* one call of generate_garment_swap_prompt
GeneratePrompt(desc, face, lighting, background) ==
  /\ Len(calls) + Len(luxury) < MaxCalls
  /\ calls' = Append(calls, [desc |-> desc, face |-> face, lighting |-> lighting,
                             background |-> background,
                             prompt |-> GarmentSwapPrompt(desc, face, lighting, background)])
  /\ UNCHANGED <<rpc, refinements, additional_path, full_prompt>>
  /\ UNCHANGED <<swapVars, appVars, sizeVars, laterVars>>

\* ---- generate_luxury_cashmere_prompt ----
\* an argument left out (None) is the empty string
Colors == {"", "beige", "camel"}
Styles == {"", "turtleneck"}
\* the knit pattern is a sequence of characters (None or "": <<>>)
KnitPatterns ==
  { <<>>,
    <<"c", "a", "b", "l", "e", " ", "k", "n", "i", "t">>,
    <<"R", "i", "b", "b", "e", "d">>,
    <<"p", "l", "a", "i", "n">>,
    <<"C", "A", "B", "L", "E">>,
    <<"3", "x", "3", " ", "r", "i", "b", "b", "e", "d", " ", "C", "a", "b", "l", "e">>,
    <<"R", "U+0130", "B", "B", "E", "D">>,
    <<"C", "U+00C2", "B", "L", "E">> }


RECURSIVE JoinParts(_)
\* ", ".join(parts), as the pieces of the text
JoinParts(parts) ==
  IF parts = <<>> THEN <<>>
  ELSE IF Len(parts) = 1 THEN parts[1]
  ELSE parts[1] \o <<", ">> \o JoinParts(Tail(parts))

\* the garment description built from the arguments, as the pieces of its text
LuxuryDescription(color, style, knit) ==
  LET parts == (IF knit # <<>> THEN << knit \o <<" pattern">> >> ELSE <<>>)
               \o (IF color # "" THEN << <<color, " color">> >>
                                 ELSE << <<"exact color from flat-lay">> >>)
               \o (IF style # "" THEN << <<style, " style">> >> ELSE <<>>)
  IN <<"Luxury cashmere ">> \o JoinParts(parts) \o <<".">>
     \o (IF knit # <<>> /\ InLower(<<"c", "a", "b", "l", "e">>, knit)
         THEN <<" Prominent cable patterns with dimensional depth. Each cable ridge should be clearly defined with shadow and highlight to show 3D texture.">>
         ELSE <<>>)
     \o (IF knit # <<>> /\ InLower(<<"r", "i", "b", "b", "e", "d">>, knit)
         THEN <<" Precise ribbing texture with clearly defined vertical lines showing the knit structure.">>
         ELSE <<>>)
     \o <<" The cashmere texture should show the characteristic soft, fine fiber surface with natural luster.">>

\* variant: the description is put into the prompt as a line of its own
LuxuryCashmerePrompt_Described(color, style, knit) ==
  LET description == LuxuryDescription(color, style, knit) IN
  GarmentSwapPrompt(description, TRUE, TRUE, TRUE)
  \o << [i \in 1..Len(description) |-> Run(description[i], 1)] >>

\* generate_luxury_cashmere_prompt
LuxuryCashmerePrompt(color, style, knit) ==
  GarmentSwapPrompt(LuxuryDescription(color, style, knit), TRUE, TRUE, TRUE)

\* one call of generate_luxury_cashmere_prompt
GenerateLuxury(color, style, knit) ==
  /\ Len(calls) + Len(luxury) < MaxCalls
  /\ luxury' = Append(luxury, [color |-> color, style |-> style, knit_pattern |-> knit,
                               description |-> LuxuryDescription(color, style, knit),
                               prompt |-> LuxuryCashmerePrompt(color, style, knit)])
  /\ UNCHANGED notLuxVars

PromptNext ==
  \/ \E desc \in Descriptions, face \in BOOLEAN, lighting \in BOOLEAN, background \in BOOLEAN :
        GeneratePrompt(desc, face, lighting, background)
  \/ \E color \in Colors, style \in Styles, knit \in KnitPatterns :
        GenerateLuxury(color, style, knit)

PromptSpec == PromptInit /\ [][PromptNext]_vars

\* number of lines of text equal to line
Occurrences(text, line) == Cardinality({ i \in 1..Len(text) : text[i] = line })

\* whether block occurs in text as consecutive lines
HasBlock(text, block) ==
  \E i \in 0..(Len(text) - Len(block)) : SubSeq(text, i + 1, i + Len(block)) = block

\* C19: the prompt is a function of the three preserve flags only: calls with
\* the same flags return the same text; the face, lighting and background
\* lines are present exactly when their flag is set; the task statement, the
\* pose line, the REPLACE block and the closing quality line are always there.
C19_PromptFunctionOfFlags ==
  /\ \A i, j \in 1..Len(calls) :
        (/\ calls[i].face = calls[j].face
         /\ calls[i].lighting = calls[j].lighting
         /\ calls[i].background = calls[j].background) => calls[i].prompt = calls[j].prompt
  /\ \A i \in 1..Len(calls) :
        LET c == calls[i] IN
        /\ Occurrences(c.prompt, FaceLine) = (IF c.face THEN 1 ELSE 0)
        /\ Occurrences(c.prompt, LightingLine) = (IF c.lighting THEN 1 ELSE 0)
        /\ Occurrences(c.prompt, BackgroundLine) = (IF c.background THEN 1 ELSE 0)
        /\ SubSeq(c.prompt, 1, Len(TaskLines)) = TaskLines
        /\ Occurrences(c.prompt, PoseLine) = 1
        /\ HasBlock(c.prompt, <<ReplaceHeading>> \o GarmentInstruction)
        /\ c.prompt[Len(c.prompt)] = OutputLine

C19_Witness ==
  /\ Len(calls) = 2
  /\ calls[1].face /\ calls[1].lighting /\ ~calls[1].background
  /\ calls[2].face /\ calls[2].lighting /\ ~calls[2].background
  /\ calls[1].desc # calls[2].desc
  /\ calls[1].prompt = calls[2].prompt
  /\ Occurrences(calls[1].prompt, BackgroundLine) = 0
  /\ Occurrences(calls[1].prompt, LightingLine) = 1

\* =================================================================
\* /generate: assembly of the full prompt from the refinements
\* =================================================================
\* largest number of lines of a refinement text
MaxRefLines == 3

\* max_refinement_length
MaxRefinementLength == 2000

\* the empty string: one line without characters
EmptyText == <<Blank>>

RECURSIVE LStripLine(_)
\* line.lstrip()
LStripLine(line) ==
  IF line = <<>> THEN <<>>
  ELSE IF IsSpace(line[1].ch) THEN LStripLine(Tail(line)) ELSE line

RECURSIVE RStripLine(_)
\* line.rstrip()
RStripLine(line) ==
  IF line = <<>> THEN <<>>
  ELSE IF IsSpace(line[Len(line)].ch) THEN RStripLine(SubSeq(line, 1, Len(line) - 1)) ELSE line

\* line.strip()
StripLine(line) == RStripLine(LStripLine(line))

\* s.strip() of a text: the whitespace before the first and after the last
\* character that is not whitespace goes, line breaks included
StripText(text) ==
  LET full == { i \in 1..Len(text) : StripLine(text[i]) # <<>> } IN
  IF full = {} THEN EmptyText
  ELSE LET a == CHOOSE i \in full : \A j \in full : i <= j
           b == CHOOSE i \in full : \A j \in full : i >= j
       IN IF a = b THEN <<StripLine(text[a])>>
          ELSE <<LStripLine(text[a])>> \o SubSeq(text, a + 1, b - 1) \o <<RStripLine(text[b])>>

RECURSIVE LineLen(_)
\* len(line)
LineLen(line) == IF line = <<>> THEN 0 ELSE line[1].n + LineLen(Tail(line))

RECURSIVE TextLen(_)
\* len(s): the characters of the lines and the "\n" between them
TextLen(text) ==
  IF Len(text) = 1 THEN LineLen(text[1])
  ELSE LineLen(text[1]) + 1 + TextLen(Tail(text))

RECURSIVE TakeLine(_, _)
\* line[:k]
TakeLine(line, k) ==
  IF k <= 0 \/ line = <<>> THEN <<>>
  ELSE IF line[1].n >= k THEN <<Run(line[1].ch, k)>>
  ELSE <<line[1]>> \o TakeLine(Tail(line), k - line[1].n)

RECURSIVE TakeText(_, _)
\* s[:k]
TakeText(text, k) ==
  IF Len(text) = 1 \/ LineLen(text[1]) >= k THEN <<TakeLine(text[1], k)>>
  ELSE <<text[1]>> \o TakeText(Tail(text), k - LineLen(text[1]) - 1)

\* "\n".join(lines)
JoinLines(lines) == IF lines = <<>> THEN EmptyText ELSE lines

\* variant: a line is a comment only when "#" is its very first character
IsCommentLine_Unstripped(line) == line # <<>> /\ line[1].ch = "#"

\* line.strip().startswith("#")
IsCommentLine(line) == StripLine(line) # <<>> /\ StripLine(line)[1].ch = "#"

\* the filter of the generator expression
KeepLine(line) == StripLine(line) # <<>> /\ ~IsCommentLine(line)

HeadingRefinements == Line("ADDITIONAL REFINEMENTS:")
HeadingCombined ==
  Line("NOTE: An additional image is provided for guidance. Apply these refinement instructions to guide the generation:")
NoteAdditional ==
  Line("NOTE: An additional image is provided. Use it as additional guidance for the generation.")

\* base_prompt: generate_garment_swap_prompt() with its defaults
BasePrompt == GarmentSwapPrompt("", TRUE, TRUE, TRUE)

\* variant: the length limit is not applied
Limited_NoCut(clean) == clean

\* clean_refinements after the length limit
Limited(clean) ==
  IF TextLen(StripText(clean)) > MaxRefinementLength
  THEN TakeText(StripText(clean), MaxRefinementLength)
  ELSE clean

\* variant: the note on the additional image is added whenever there is one
FullPrompt_NoteAlways(raw, additional) ==
  LET refs == StripText(raw)
      clean == JoinLines(SelectSeq(refs, KeepLine))
      body == IF refs # EmptyText /\ StripText(clean) # EmptyText
              THEN BasePrompt \o <<Blank>>
                   \o <<IF additional THEN HeadingCombined ELSE HeadingRefinements>>
                   \o StripText(Limited(clean))
              ELSE BasePrompt
  IN IF additional THEN body \o <<Blank, NoteAdditional>> ELSE body

\* full_prompt for the form value raw and the presence of an additional image
FullPrompt(raw, additional) ==
  LET refs == StripText(raw)
      clean == JoinLines(SelectSeq(refs, KeepLine))
      body == IF refs # EmptyText /\ StripText(clean) # EmptyText
              THEN BasePrompt \o <<Blank>>
                   \o <<IF additional THEN HeadingCombined ELSE HeadingRefinements>>
                   \o StripText(Limited(clean))
              ELSE BasePrompt
  IN IF additional /\ refs = EmptyText THEN body \o <<Blank, NoteAdditional>> ELSE body

\* the lines a refinement text is made of
RefLines ==
  { Blank,
    <<Run(" ", 2)>>,
    <<Run("#", 1), Run(" ", 1), Run("a", 4)>>,
    <<Run(" ", 2), Run("#", 1), Run("a", 3)>>,
    <<Run("a", 14)>>,
    <<Run(" ", 2), Run("b", 5)>>,
    <<Run("a", 4), Run("\r", 1)>>,
    <<Run("\f", 1)>>,
    <<Run("U+00A0", 1), Run("#", 1), Run("b", 2), Run("U+2028", 1)>>,
    <<Run("b", 1500)>>,
    <<Run("a", 1997)>> }

\* the refinement texts of at most MaxRefLines lines
RefinementTexts == UNION { [1..n -> RefLines] : n \in 1..MaxRefLines }

RefineInit ==
  /\ SwapIdle
  /\ AppIdle
  /\ SizeIdle
  /\ LaterIdle
  /\ calls = <<>>
  /\ rpc = "request"
  /\ refinements \in RefinementTexts
  /\ additional_path \in BOOLEAN
  /\ full_prompt = <<>>

\* the prompt part of the /generate handler
BuildPrompt ==
  /\ rpc = "request"
  /\ full_prompt' = FullPrompt(refinements, additional_path)
  /\ rpc' = "built"
  /\ UNCHANGED <<calls, refinements, additional_path>>
  /\ UNCHANGED <<swapVars, appVars, sizeVars, laterVars>>

RefineNext == BuildPrompt

RefineSpec == RefineInit /\ [][RefineNext]_vars

\* ---- the refinement lines in the prompt ----
NotSpaceRun(run) == ~IsSpace(run.ch)

\* the line has a character that is not blank, and the first one is not "#"
IsInstruction(line) ==
  LET nb == SelectSeq(line, NotSpaceRun) IN nb # <<>> /\ nb[1].ch # "#"

\* the line without the blanks at its two ends
Trimmed(line) ==
  LET idx == { i \in 1..Len(line) : NotSpaceRun(line[i]) } IN
  IF idx = {} THEN <<>>
  ELSE SubSeq(line, CHOOSE i \in idx : \A j \in idx : i <= j,
                    CHOOSE i \in idx : \A j \in idx : i >= j)

\* the line without the blanks at its beginning
WithoutLeadingBlanks(line) ==
  LET idx == { i \in 1..Len(line) : NotSpaceRun(line[i]) } IN
  IF idx = {} THEN <<>>
  ELSE SubSeq(line, CHOOSE i \in idx : \A j \in idx : i <= j, Len(line))

\* the instruction lines of the form value, in their order
Instructions == SelectSeq(refinements, IsInstruction)

\* the lines of the prompt that follow the base prompt, the empty line and
\* the heading; none when the prompt has no refinement heading
RefinementContent ==
  IF /\ Len(full_prompt) > Len(BasePrompt) + 2
     /\ full_prompt[Len(BasePrompt) + 2] \in {HeadingRefinements, HeadingCombined}
  THEN SubSeq(full_prompt, Len(BasePrompt) + 3, Len(full_prompt))
  ELSE <<>>

\* whether line a is a beginning of line b
IsLinePrefix(a, b) ==
  \/ a = <<>>
  \/ /\ Len(a) <= Len(b)
     /\ \A i \in 1..(Len(a) - 1) : a[i] = b[i]
     /\ a[Len(a)].ch = b[Len(a)].ch
     /\ a[Len(a)].n <= b[Len(a)].n

\* the number of characters of lines joined by "\n"
RECURSIVE JoinedLen(_)
JoinedLen(lines) ==
  IF lines = <<>> THEN 0
  ELSE IF Len(lines) = 1 THEN LineLen(lines[1])
  ELSE LineLen(lines[1]) + 1 + JoinedLen(Tail(lines))

\* C20 (as stated): the refinement content of the prompt is the instruction
\* lines of the text (those neither blank nor comments), each with its own
\* text (blanks at its ends apart) and in the original order, and nothing else.
C20_InstructionLinesVerbatim ==
  rpc = "built" =>
    /\ Len(RefinementContent) = Len(Instructions)
    /\ \A i \in 1..Len(Instructions) : Trimmed(RefinementContent[i]) = Trimmed(Instructions[i])

\* C20 (amended): no blank or comment line is in the refinement content; the
\* content is a beginning of the instruction lines in their order: every
\* line but the last is the instruction line itself (the first without its
\* leading blanks), the last is a beginning of its instruction line without
\* trailing blanks; the content has at most 2000 characters and is all the
\* instruction lines whenever they have at most 2000 characters together.
C20_InstructionLinesUpToCap ==
  rpc = "built" =>
    LET sec == RefinementContent
        ins == Instructions
        n == Len(sec)
        Expected(i) == IF i = 1 THEN WithoutLeadingBlanks(ins[1]) ELSE ins[i]
    IN /\ \A i \in 1..n : IsInstruction(sec[i])
       /\ (ins = <<>>) <=> (sec = <<>>)
       /\ n <= Len(ins)
       /\ \A i \in 1..(n - 1) : sec[i] = Expected(i)
       /\ n >= 1 => /\ IsLinePrefix(sec[n], Expected(n))
                    /\ NotSpaceRun(sec[n][Len(sec[n])])
       /\ JoinedLen(sec) <= MaxRefinementLength
       /\ (n >= 1 /\ JoinedLen(ins) <= MaxRefinementLength) =>
             /\ n = Len(ins)
             /\ Trimmed(sec[n]) = Trimmed(ins[n])

\* a comment, an instruction and a blank line: the instruction alone is in the prompt
C20_Witness ==
  /\ rpc = "built"
  /\ Len(refinements) = 3
  /\ refinements[1] = <<Run("#", 1), Run(" ", 1), Run("a", 4)>>
  /\ refinements[2] = <<Run("a", 14)>>
  /\ refinements[3] = Blank
  /\ RefinementContent = <<refinements[2]>>


\* C21: the refinement content of the prompt has at most 2000 characters
\* whatever the length of the text; a text over the limit is still included,
\* cut, and the request goes on; the base prompt is the beginning of the
\* full prompt, line for line.
C21_ContentCappedBaseIntact ==
  rpc = "built" =>
    /\ JoinedLen(RefinementContent) <= MaxRefinementLength
    /\ JoinedLen(Instructions) > MaxRefinementLength =>
          /\ RefinementContent # <<>>
          /\ JoinedLen(RefinementContent) >= 1
          /\ IsLinePrefix(RefinementContent[1], WithoutLeadingBlanks(Instructions[1]))
    /\ Len(full_prompt) >= Len(BasePrompt)
    /\ SubSeq(full_prompt, 1, Len(BasePrompt)) = BasePrompt

\* a text of 3000 characters is in the prompt with 2000
C21_Witness ==
  /\ rpc = "built"
  /\ JoinedLen(Instructions) > MaxRefinementLength + 1000
  /\ JoinedLen(RefinementContent) = MaxRefinementLength
  /\ SubSeq(full_prompt, 1, Len(BasePrompt)) = BasePrompt

\* C22: a text with instruction lines comes after the base prompt and an
\* empty line under one heading: ADDITIONAL REFINEMENTS without an
\* additional image, the combined note with one; the prompt has at most one
\* of the refinement heading, the combined note and the separate note.
C22_OneHeading ==
  rpc = "built" =>
    /\ Instructions # <<>> =>
          /\ Len(full_prompt) > Len(BasePrompt) + 2
          /\ full_prompt[Len(BasePrompt) + 1] = Blank
          /\ full_prompt[Len(BasePrompt) + 2] =
               (IF additional_path THEN HeadingCombined ELSE HeadingRefinements)
    /\ Occurrences(full_prompt, HeadingRefinements) + Occurrences(full_prompt, HeadingCombined)
         + Occurrences(full_prompt, NoteAdditional) <= 1

\* instructions with an additional image: the combined note alone
C22_Witness ==
  /\ rpc = "built"
  /\ additional_path
  /\ Len(Instructions) = 2
  /\ Occurrences(full_prompt, HeadingCombined) = 1
  /\ Occurrences(full_prompt, HeadingRefinements) = 0
  /\ Occurrences(full_prompt, NoteAdditional) = 0

\* C26: a prompt built for a request with an additional image has a note on
\* that image (the combined note or the separate one), whatever the
\* refinement text.
C26_GuidanceImageAnnounced ==
  (rpc = "built" /\ additional_path) =>
     Occurrences(full_prompt, HeadingCombined) + Occurrences(full_prompt, NoteAdditional) >= 1


\* C28: with max_retries zero or negative swap_garment still checks that the
\* input files exist (a missing one raises FileNotFoundError), and with the
\* files there it ends with the result None: no API call, no attempt, no
\* wait, no file written, nothing raised.
C28_NoRetriesNoCall ==
  (config.max_retries <= 0 /\ pc = "done") =>
     /\ api_calls = 0 /\ log = <<>> /\ sleeps = <<>> /\ writes = 0
     /\ IF "missing" \in {req.model, req.flatlay, req.additional}
        THEN outcome.kind = "raise" /\ outcome.exc = "FileNotFoundError"
        ELSE outcome.kind = "None"

C28_Witness ==
  /\ config.max_retries = 0 - NegRetries
  /\ pc = "done"
  /\ req.model = "ok" /\ req.flatlay = "ok" /\ req.additional = "ok"
  /\ outcome.kind = "None"
  /\ api_calls = 0
  /\ reply # NoReply


\* C27: once /generate has answered a request for which swap_garment was
\* called, exactly one Generation record is stored unless the commit of the
\* record failed, and its success flag is set exactly when an image was
\* produced (success, exception and None result alike).
C27_OneHistoryRecord ==
  (reply # NoReply /\ reply.commit # "failed") =>
     /\ Len(db) = 1
     /\ db[1].success = (outcome.kind = "Success")


\* C29: generate_luxury_cashmere_prompt returns the prompt of
\* generate_garment_swap_prompt() with its defaults for every color, style
\* and knit pattern, given or not: the description it builds is in no prompt.
C29_LuxuryPromptIsDefault ==
  \A i \in 1..Len(luxury) :
     /\ luxury[i].prompt = GarmentSwapPrompt("", TRUE, TRUE, TRUE)
     /\ \A j \in 1..Len(luxury[i].prompt) :
           \A k \in 1..Len(luxury[i].prompt[j]) :
              \A d \in 1..Len(luxury[i].description) :
                 luxury[i].prompt[j][k].ch # luxury[i].description[d]

\* a call with no argument and a call with all three: different
\* descriptions, one prompt
C29_Witness ==
  /\ Len(luxury) = 2
  /\ luxury[1].color = "" /\ luxury[1].style = "" /\ luxury[1].knit_pattern = <<>>
  /\ luxury[2].color = "camel" /\ luxury[2].style = "turtleneck"
  /\ luxury[2].knit_pattern = <<"C", "A", "B", "L", "E">>
  /\ Contains(<<" Prominent cable patterns with dimensional depth. Each cable ridge should be clearly defined with shadow and highlight to show 3D texture.">>,
              luxury[2].description)
  /\ Len(luxury[2].description) > Len(luxury[1].description)
  /\ luxury[1].prompt = luxury[2].prompt


\* =================================================================
\* GeminiGarmentSwapClient.generate_ai_model
\* =================================================================
\* max_dimension of generate_ai_model
AiMaxDimension == 2048

\* the reference image files of the requests
ReferenceImages == ModelImages \cup {NoImg}

\* "Extract and save image (similar to swap_garment logic)": a null content
\* logs its finish reason and returns None
InterpretAiResponse(resp) ==
  IF resp.candidates \in {"absent", "empty"} THEN ReturnNone("no_candidates")
  ELSE IF resp.candidate \in {"null", "nocontentattr"} THEN ReturnNone("no_content")
  ELSE IF resp.content = "null" THEN ReturnNone("null_content")
  ELSE IF resp.partsattr = "noattr" THEN ReturnNone("no_parts_attr")
  ELSE IF resp.partsattr = "null"
  THEN Raise("TypeError", MsgNotIterable, "parts_null")
  ELSE PartsBranch(resp.parts)

\* variant: an APIError is answered by a wait and another call
AiAfterCall_RetryApiError(beh) ==
  IF beh.kind = "APIError"
  THEN [pc |-> "call", outcome |-> Pending, sleep |-> <<1>>]
  ELSE IF beh.kind = "Exception"
  THEN [pc |-> "done", outcome |-> Outcome("raise", "ConnectionError", MsgTransport, 0), sleep |-> <<>>]
  ELSE [pc |-> "interpret", outcome |-> Pending, sleep |-> <<>>]

\* what follows generate_content: `except Exception: ... raise` hands on
\* whatever it raised
AiAfterCall(beh) ==
  IF beh.kind = "APIError"
  THEN [pc |-> "done", outcome |-> Outcome("raise", "APIError", "", beh.code), sleep |-> <<>>]
  ELSE IF beh.kind = "Exception"
  THEN [pc |-> "done", outcome |-> Outcome("raise", "ConnectionError", MsgTransport, 0), sleep |-> <<>>]
  ELSE [pc |-> "interpret", outcome |-> Pending, sleep |-> <<>>]

AiInit ==
  /\ SwapIdle
  /\ AppInit
  /\ SizeIdle
  /\ PromptIdle
  /\ LuxIdle
  /\ BatchIdle
  /\ IterIdle
  /\ ai_pc = "start"
  /\ ai_ref \in ReferenceImages
  /\ ai_sent = NoImg
  /\ ai_response = NoBehaviour
  /\ ai_calls = 0
  /\ ai_sleeps = <<>>
  /\ ai_writes = 0
  /\ ai_steps = <<>>
  /\ ai_outcome = Pending

\* the existence check of the reference image
AiValidate ==
  /\ ai_pc = "start"
  /\ ai_steps' = Append(ai_steps, "validate")
  /\ IF ai_ref = NoImg
     THEN /\ ai_pc' = "done"
          /\ ai_outcome' = Outcome("raise", "FileNotFoundError", MsgReferenceNotFound, 0)
     ELSE /\ ai_pc' = "prepare"
          /\ UNCHANGED ai_outcome
  /\ UNCHANGED <<ai_ref, ai_sent, ai_response, ai_calls, ai_sleeps, ai_writes>>
  /\ UNCHANGED notAiVars

\* Image.open, the resize to max_dimension and the conversion to RGB
AiPrepare ==
  /\ ai_pc = "prepare"
  /\ ai_steps' = Append(ai_steps, "prepare")
  /\ IF ai_ref.mode = "corrupt"
     THEN /\ ai_pc' = "done"
          /\ ai_outcome' = Outcome("raise", "UnidentifiedImageError", MsgCannotIdentify, 0)
          /\ UNCHANGED ai_sent
     ELSE IF MaxSide(ai_ref) > AiMaxDimension /\ ResizeFails(ai_ref, AiMaxDimension)
     THEN /\ ai_pc' = "done"
          /\ ai_outcome' = Outcome("raise", "ValueError", MsgZeroSize, 0)
          /\ UNCHANGED ai_sent
     ELSE /\ ai_pc' = "call"
          /\ ai_sent' = PrepareOne(ai_ref, AiMaxDimension)
          /\ UNCHANGED ai_outcome
  /\ UNCHANGED <<ai_ref, ai_response, ai_calls, ai_sleeps, ai_writes>>
  /\ UNCHANGED notAiVars

\* client.models.generate_content, the API behaving as beh
AiCall(beh) ==
  /\ ai_pc = "call"
  /\ ai_steps' = Append(ai_steps, "call")
  /\ ai_calls' = ai_calls + 1
  /\ ai_response' = beh
  /\ ai_pc' = AiAfterCall(beh).pc
  /\ ai_outcome' = AiAfterCall(beh).outcome
  /\ ai_sleeps' = ai_sleeps \o AiAfterCall(beh).sleep
  /\ UNCHANGED <<ai_ref, ai_sent, ai_writes>>
  /\ UNCHANGED notAiVars

\* the interpretation of the response, up to the decoding of the image
AiInterpret ==
  /\ ai_pc = "interpret"
  /\ ai_steps' = Append(ai_steps, "interpret")
  /\ LET r == InterpretAiResponse(ai_response) IN
     IF r.ret = "path"
     THEN /\ ai_pc' = "save"
          /\ UNCHANGED ai_outcome
     ELSE /\ ai_pc' = "done"
          /\ ai_outcome' = IF r.ret = "None" THEN Outcome("None", "", "", 0)
                           ELSE Outcome("raise", r.exc, r.msg, 0)
  /\ UNCHANGED <<ai_ref, ai_sent, ai_response, ai_calls, ai_sleeps, ai_writes>>
  /\ UNCHANGED notAiVars

\* the conversion for the output format and generated_image.save
AiSave ==
  /\ ai_pc = "save"
  /\ ai_steps' = Append(ai_steps, "save")
  /\ ai_writes' = ai_writes + 1
  /\ ai_pc' = "done"
  /\ ai_outcome' = Outcome("Success", "", "", 0)
  /\ UNCHANGED <<ai_ref, ai_sent, ai_response, ai_calls, ai_sleeps>>
  /\ UNCHANGED notAiVars

\* ---- the route /generate-ai-model ----
TplAiImageOther == <<"API", "Generation", "Issue">>
TplAiContentPolicy == <<"Content", "Policy", "Error", "reference", "image">>
TplAiSafety == <<"Safety", "Filter", "Error", "reference", "image">>
TplAiFailed == <<"Failed", "to", "generate", "AI", "model">>
TplAiSuccess == <<"AI", "model", "generated", "successfully">>

\* the substring tests of the route on str(e); an unmatched text is passed
\* on as it is
AiUserErrorMessage(words) ==
  IF Contains(IMAGE_OTHER, words) THEN TplAiImageOther
  ELSE IF Contains(PROHIBITED_CONTENT, words) THEN TplAiContentPolicy
  ELSE IF Contains(SAFETY, words) THEN TplAiSafety
  ELSE words

\* str(e) in the route, as words
AiErrorText(o, ref, sid, addr) ==
  ErrorWords(o)
  \o (IF o.msg = MsgReferenceNotFound THEN UploadPath(sid, "reference")
      ELSE IF o.msg = MsgCannotIdentify
      THEN (IF ref.mode = "corrupt" THEN UploadPath(sid, "reference") ELSE BytesRepr(addr))
      ELSE <<>>)

\* the part of the route that follows the generate_ai_model call: the
\* failure and the success are recorded, a None result is not
AiRespond(commits, addr) ==
  /\ ai_pc = "done"
  /\ reply = NoReply
  /\ IF ai_outcome.kind = "raise"
     THEN LET words == AiErrorText(ai_outcome, ai_ref, session_id, addr)
              text == AiUserErrorMessage(words) IN
          /\ reply' = [http |-> 500, templated |-> text # words, text |-> text,
                       commit |-> CommitState(commits)]
          /\ db' = Committed(db, [type |-> "ai_model", success |-> FALSE,
                                  error_message |-> text], commits)
     ELSE IF ai_outcome.kind = "Success"
     THEN /\ reply' = [http |-> 200, templated |-> TRUE, text |-> TplAiSuccess,
                       commit |-> CommitState(commits)]
          /\ db' = Committed(db, [type |-> "ai_model", success |-> TRUE,
                                  error_message |-> <<>>], commits)
     ELSE /\ reply' = [http |-> 500, templated |-> TRUE, text |-> TplAiFailed, commit |-> "none"]
          /\ UNCHANGED db
  /\ UNCHANGED session_id
  /\ UNCHANGED <<aiVars, swapVars, sizeVars, promptVars, luxVars, batchVars, iterVars>>

AiNext ==
  \/ AiValidate
  \/ AiPrepare
  \/ \E beh \in Behaviours : AiCall(beh)
  \/ AiInterpret
  \/ AiSave
  \/ \E commits \in BOOLEAN, addr \in ObjectAddresses : AiRespond(commits, addr)

AiSpec == AiInit /\ [][AiNext]_vars

\* the outcome of swap_garment's interpretation of a response
SwapKind(resp) ==
  LET r == InterpretResponse(resp) IN
  IF r.ret = "path" THEN Outcome("Success", "", "", 0)
  ELSE IF r.ret = "None" THEN Outcome("None", "", "", 0)
  ELSE Outcome("raise", r.exc, r.msg, 0)

\* C23: generate_ai_model ends a response of any shape with the outcome
\* swap_garment's interpretation gives that shape; a null content with a
\* PROHIBITED_CONTENT or SAFETY finish reason is raised as that block, not
\* returned as None.
C23_SameInterpretation ==
  (ai_pc = "done" /\ ai_response.kind = "Response") => ai_outcome = SwapKind(ai_response)

\* the order of the stages
AiStages == <<"validate", "prepare", "call", "interpret", "save">>

\* C24: one invocation of generate_ai_model goes through validate, prepare,
\* call, interpret and save in this order, each at most once; a missing
\* reference image fails before any API call; there is at most one API call
\* and no wait; an API error or another exception of the call is raised to
\* the caller as it is.
C24_SingleAttempt ==
  /\ Len(ai_steps) <= Len(AiStages)
  /\ ai_steps = SubSeq(AiStages, 1, Len(ai_steps))
  /\ ai_calls <= 1
  /\ ai_sleeps = <<>>
  /\ ai_writes <= 1
  /\ (ai_pc = "done" /\ ai_ref = NoImg) =>
        /\ ai_calls = 0
        /\ ai_steps = <<"validate">>
        /\ ai_outcome.kind = "raise" /\ ai_outcome.exc = "FileNotFoundError"
  /\ (ai_pc = "done" /\ ai_response.kind = "APIError") =>
        /\ ai_calls = 1
        /\ ai_outcome = Outcome("raise", "APIError", "", ai_response.code)
  /\ (ai_pc = "done" /\ ai_response.kind = "Exception") =>
        /\ ai_calls = 1
        /\ ai_outcome.kind = "raise" /\ ai_outcome.exc = "ConnectionError"
  /\ (ai_pc = "done" /\ ai_outcome.kind = "Success") => ai_steps = AiStages

\* an API error on the only call ends the invocation
C24_Witness ==
  /\ ai_pc = "done"
  /\ ai_response.kind = "APIError"
  /\ ai_response.code = 503
  /\ ai_calls = 1
  /\ ai_steps = <<"validate", "prepare", "call">>
  /\ ai_outcome.kind = "raise"


\* =================================================================
\* GarmentSwapProcessor.process_batch
\* =================================================================
\* largest number of model images of a batch
MaxBatch == 3

\* the file names of the model images, and the flat-lay of the batch
ModelNames == {"anna.jpg", "bea.png", "anna.png"}
FlatlayName == "pull.jpg"

\* Path(name).stem
Stem(name) ==
  CASE name = "anna.jpg" -> "anna"
    [] name = "anna.png" -> "anna"
    [] name = "bea.png" -> "bea"
    [] name = "pull.jpg" -> "pull"

\* Config.get_output_path: output_dir / "<model>_<flatlay>_swap.<format>"
GetOutputPath(model, flatlay) == <<Stem(model), "_", Stem(flatlay), "_swap.", "png">>
NoPath == <<>>

\* what swap_garment does for one image: it returns the output path,
\* returns None, or raises
ClientOutcomes ==
  { Outcome("Success", "", "", 0), Outcome("None", "", "", 0),
    Outcome("raise", "APIError", "", 503),
    Outcome("raise", "FileNotFoundError", MsgModelNotFound, 0),
    Outcome("raise", "Exception", MsgProhibited, 0) }

\* variant: process_single_swap without its `except Exception`
ProcessSingleSwap_NoExcept(model, flatlay, o, valid) ==
  IF o.kind = "Success"
  THEN [ret |-> "path", path |-> GetOutputPath(model, flatlay)]
  ELSE IF o.kind = "None"
  THEN [ret |-> "None", path |-> NoPath]
  ELSE [ret |-> "raise", path |-> NoPath]

\* process_single_swap, the client ending as o and the quality check of
\* the output as valid: a result is returned whatever the check says, a
\* None result and every exception give None
ProcessSingleSwap(model, flatlay, o, valid) ==
  IF o.kind = "Success"
  THEN [ret |-> "path", path |-> GetOutputPath(model, flatlay)]
  ELSE [ret |-> "None", path |-> NoPath]

\* the batches of at most MaxBatch model images
Batches == UNION { [1..n -> ModelNames] : n \in 0..MaxBatch }

BatchInit ==
  /\ SwapIdle
  /\ AppIdle
  /\ SizeIdle
  /\ PromptIdle
  /\ LuxIdle
  /\ AiIdle
  /\ IterIdle
  /\ batch_pc = "loop"
  /\ model_images \in Batches
  /\ batch_i = 1
  /\ batch_log = <<>>
  /\ results = <<>>

\* one iteration of `for i, model_image in enumerate(model_images, 1)`
ProcessOne(o, valid) ==
  /\ batch_pc = "loop"
  /\ batch_i <= Len(model_images)
  /\ LET r == ProcessSingleSwap(model_images[batch_i], FlatlayName, o, valid) IN
     /\ batch_log' = Append(batch_log, [model |-> model_images[batch_i], outcome |-> o.kind,
                                        path |-> GetOutputPath(model_images[batch_i], FlatlayName)])
     /\ IF r.ret = "raise"
        THEN /\ batch_pc' = "aborted"
             /\ UNCHANGED <<batch_i, results>>
        ELSE /\ batch_pc' = "loop"
             /\ batch_i' = batch_i + 1
             /\ results' = IF r.ret = "path" THEN Append(results, r.path) ELSE results
  /\ UNCHANGED model_images
  /\ UNCHANGED notBatchVars

\* the list is exhausted: `return results`
BatchReturn ==
  /\ batch_pc = "loop"
  /\ batch_i > Len(model_images)
  /\ batch_pc' = "returned"
  /\ UNCHANGED <<model_images, batch_i, batch_log, results>>
  /\ UNCHANGED notBatchVars

BatchNext ==
  \/ \E o \in ClientOutcomes, valid \in BOOLEAN : ProcessOne(o, valid)
  \/ BatchReturn

BatchSpec == BatchInit /\ [][BatchNext]_vars

RECURSIVE PathsOfSuccesses(_)
\* the paths of the successful entries of a log, in its order
PathsOfSuccesses(lg) ==
  IF lg = <<>> THEN <<>>
  ELSE (IF lg[1].outcome = "Success" THEN <<lg[1].path>> ELSE <<>>)
       \o PathsOfSuccesses(Tail(lg))

\* C25: process_batch attempts the model images one by one in list order,
\* each once, a failed swap (None or an exception of the client) stopping
\* nothing; it returns after the last image, and the list it returns is the
\* output paths of the successful swaps in input order.
C25_BatchAttemptsAll ==
  /\ batch_pc # "aborted"
  /\ Len(batch_log) <= Len(model_images)
  /\ \A i \in 1..Len(batch_log) : batch_log[i].model = model_images[i]
  /\ results = PathsOfSuccesses(batch_log)
  /\ batch_pc = "returned" => Len(batch_log) = Len(model_images)

\* a batch of three: an exception, a None result, a success
C25_Witness ==
  /\ batch_pc = "returned"
  /\ Len(model_images) = 3
  /\ batch_log[1].outcome = "raise"
  /\ batch_log[2].outcome = "None"
  /\ batch_log[3].outcome = "Success"
  /\ results = <<batch_log[3].path>>


\* =================================================================
\* iterate.py: main
\* =================================================================
\* largest number of swaps of one run of the tool
MaxRuns == 4

\* what the user types at "Refinement instructions: ", as characters
UserInputs ==
  { <<>>, <<" ", "\t">>,
    <<"r", "e", "s", "e", "t">>, <<"R", "E", "S", "E", "T">>,
    <<" ", "R", "e", "S", "e", "T", " ">>,
    <<"r", "e", "s", "e", "t", "s">>,
    <<"R", "E", "S", "E", "T", "U+0130">>,
    <<"R", "U+00C9", "S", "E", "T">>,
    <<"k", "e", "e", "p", " ", "f", "a", "c", "e">> }


\* the output path of run_swap: the path of get_output_path, with
\* "_<suffix>" before the extension when the suffix is not empty; the
\* suffix is "iter<iteration>" from the second iteration on
IterOutputPath(model, flatlay, k) ==
  IF k > 1
  THEN <<Stem(model), "_", Stem(flatlay), "_swap", "_", "iter", k, ".", "png">>
  ELSE <<Stem(model), "_", Stem(flatlay), "_swap", ".", "png">>

\* prompt_refinement.txt at the start: absent or empty, or notes of an earlier run
IterInit ==
  /\ SwapIdle
  /\ AppIdle
  /\ SizeIdle
  /\ PromptIdle
  /\ LuxIdle
  /\ AiIdle
  /\ BatchIdle
  /\ iter_pc = "swap"
  /\ iteration = 1
  /\ notes \in {<<>>, << <<"k", "e", "e", "p", " ", "f", "a", "c", "e">> >>}
  /\ written = <<>>

\* the first part of the loop body: run_swap with the suffix of the
\* iteration; ok tells whether it returned a path
IterSwap(ok) ==
  /\ iter_pc = "swap"
  /\ Len(written) < MaxRuns
  /\ IF ok
     THEN /\ written' = Append(written, IterOutputPath("anna.jpg", FlatlayName, iteration))
          /\ iter_pc' = "ask"
     ELSE /\ iter_pc' = "exit"
          /\ UNCHANGED written
  /\ UNCHANGED <<iteration, notes>>
  /\ UNCHANGED notIterVars

\* the second part: the user's answer, stripped as it is read
IterAnswer(text) ==
  /\ iter_pc = "ask"
  /\ LET new_refinements == StripChars(text) IN
     IF new_refinements = <<>>
     THEN /\ iter_pc' = "exit"
          /\ UNCHANGED <<iteration, notes>>
     ELSE IF LowerEquals(new_refinements, <<"r", "e", "s", "e", "t">>)
     THEN /\ notes' = <<>>
          /\ iteration' = 1
          /\ iter_pc' = "swap"
     ELSE /\ notes' = Append(notes, new_refinements)
          /\ iteration' = iteration + 1
          /\ iter_pc' = "swap"
  /\ UNCHANGED written
  /\ UNCHANGED notIterVars

IterNext ==
  \/ \E ok \in BOOLEAN : IterSwap(ok)
  \/ \E text \in UserInputs : IterAnswer(text)

IterSpec == IterInit /\ [][IterNext]_vars

\* C30: within one run of the tool no two iterations write to the same
\* output path, whatever the user enters.
C30_DistinctOutputPaths ==
  \A i, j \in 1..Len(written) : i # j => written[i] # written[j]

====
